---- MODULE Spec2Model ----
(***************************************************************************)
(* oas-dsl: the schema-node DSL, its process-wide registries and the       *)
(* makeSchema build pipeline, as written in src/unnamed/part_001.          *)
(*                                                                         *)
(* Conventions.  A JS string is a sequence of tokens (TLA+ strings), so    *)
(* that template strings are concatenations (\o) and "" is <<>>.  Labels   *)
(* and file names are sequences of single characters.  An optional JS      *)
(* property is a set with at most one element ({} is undefined).  A JSON   *)
(* value is a one-field record naming its type; a JS object is the         *)
(* sequence of its <<key, value>> pairs in enumeration order.  A thrown    *)
(* Error is the value [throw |-> message].                                 *)
(***************************************************************************)
EXTENDS Integers, Sequences, FiniteSets, TLC

VARIABLES
  heap,                    \* the Schema objects allocated so far; index = identity
  registeredFixedSchemas,  \* FixedSchema.registeredFixedSchemas
  externalFiles,           \* ReferenceSchema.externalFiles, pairs <<file, target>> in key order
  last,                    \* the last DSL call: [op, receiver, result]
  routes,                  \* params.routes of the build
  build,                   \* the state of the makeSchema call
  fs,                      \* the file system: scratch directories and the output file
  stdout                   \* what console.log has printed

vars == <<heap, registeredFixedSchemas, externalFiles, last, routes, build, fs, stdout>>

(***************************************************************************)
(* JSON values                                                             *)
(***************************************************************************)
JUndef == [undefined |-> TRUE]
JNull == [null |-> TRUE]
JStr(s) == [str |-> s]
JNum(n) == [num |-> n]
JBool(b) == [bool |-> b]
JObj(pairs) == [obj |-> pairs]
JArr(items) == [arr |-> items]
Throw(msg) == [throw |-> msg]
IsThrow(v) == "throw" \in DOMAIN v

Undefined == {}
Some(x) == {x}
Val(o) == CHOOSE x \in o : TRUE
\* the JS value of an optional property
OptJ(o) == IF o = {} THEN JUndef ELSE Val(o)
OptBool(o) == IF o = {} THEN JUndef ELSE JBool(Val(o))
OptNum(o) == IF o = {} THEN JUndef ELSE JNum(Val(o))
OptStr(o) == IF o = {} THEN JUndef ELSE JStr(Val(o))

\* a sequence given by a rule, as the tuple of its elements
Tup(f) == f \o <<>>

Keys(o) == Tup([i \in 1..Len(o) |-> o[i][1]])
HasKey(o, k) == \E i \in 1..Len(o) : o[i][1] = k
Get(o, k) == IF HasKey(o, k) THEN o[CHOOSE i \in 1..Len(o) : o[i][1] = k][2] ELSE JUndef

\* o[k] = v on a JS object with string keys: an existing key keeps its place
ObjSet(o, k, v) ==
  IF HasKey(o, k)
  THEN Tup([i \in 1..Len(o) |-> IF o[i][1] = k THEN <<k, v>> ELSE o[i]])
  ELSE Append(o, <<k, v>>)

\* the object literal { ...pairs }, evaluated left to right
RECURSIVE ObjLit(_)
ObjLit(pairs) ==
  IF pairs = <<>> THEN <<>>
  ELSE LET n == Len(pairs)
       IN ObjSet(ObjLit(SubSeq(pairs, 1, n - 1)), pairs[n][1], pairs[n][2])

\* every key but the named ones (a destructuring rest pattern)
Rest(o, dropped) == SelectSeq(o, LAMBDA p : p[1] \notin dropped)

\* a faulty variant: every key is kept
ignoreUndefined_keepAll(filters) == filters

ignoreUndefined(filters) == SelectSeq(filters, LAMBDA p : p[2] # JUndef)

\* the first thrown error among vals, or result when nothing was thrown
Guard(vals, result) ==
  IF \E i \in 1..Len(vals) : IsThrow(vals[i])
  THEN vals[CHOOSE i \in 1..Len(vals) :
              IsThrow(vals[i]) /\ \A j \in 1..(i - 1) : ~IsThrow(vals[j])]
  ELSE result

(***************************************************************************)
(* Strings                                                                 *)
(***************************************************************************)
SafeChars ==
  { "A", "B", "C", "D", "E", "F", "G", "H", "I", "J", "K", "L", "M",
    "N", "O", "P", "Q", "R", "S", "T", "U", "V", "W", "X", "Y", "Z",
    "a", "b", "c", "d", "e", "f", "g", "h", "i", "j", "k", "l", "m",
    "n", "o", "p", "q", "r", "s", "t", "u", "v", "w", "x", "y", "z",
    "0", "1", "2", "3", "4", "5", "6", "7", "8", "9", "-", ".", "_" }

\* a faulty variant: the characters outside the class are dropped
toSchemaName_strip(label) == SelectSeq(label, LAMBDA c : c \in SafeChars)

\* label.replace(/[^A-Za-z0-9\-\._]/gm, "_"): with the g flag every match, one
\* character (UTF-16 code unit) each, is replaced
toSchemaName(label) ==
  Tup([i \in 1..Len(label) |-> IF label[i] \in SafeChars THEN label[i] ELSE "_"])

lastIndexOf(s, c) ==
  IF \E i \in 1..Len(s) : s[i] = c
  THEN CHOOSE i \in 1..Len(s) : s[i] = c /\ \A j \in (i + 1)..Len(s) : s[j] # c
  ELSE 0

getFilename(path) == SubSeq(path, lastIndexOf(path, "/") + 1, Len(path))

(***************************************************************************)
(* Schema objects                                                          *)
(***************************************************************************)
Extensible ==
  { "StringField", "BooleanField", "DateField", "NumberField", "EnumField",
    "ObjectField", "ArrayField" }

\* a newly constructed object of a class: every property undefined
NewSchema(kind) ==
  [ kind |-> kind,
    _description |-> Undefined, _required |-> Undefined,
    _deprecated |-> Undefined, _explode |-> Undefined,
    _examples |-> Undefined, _example |-> Undefined,
    _minLength |-> Undefined, _maxLength |-> Undefined, _regex |-> Undefined,
    _format |-> Undefined,
    _min |-> Undefined, _max |-> Undefined, _default |-> Undefined,
    _enum |-> <<>>,
    _fields |-> <<>>, _additionalProperties |-> Undefined,
    _items |-> Undefined,
    _schema |-> Undefined, _label |-> <<>>,
    _file |-> <<>>, _path |-> <<>>,
    _schemas |-> <<>> ]

\* a faulty variant: no copy is made, the receiver itself is handed back
clone_alias(h, t) == [id |-> t, heap |-> h, registered |-> <<>>, files |-> {}]

\* a faulty variant: the copy is made by calling the constructor of t's class
\* again, which registers the label of a FixedSchema and resets the entry of a
\* ReferenceSchema's file
clone_construct(h, t) ==
  [id |-> Len(h) + 1, heap |-> Append(h, h[t]),
   registered |-> IF h[t].kind = "FixedSchema" THEN <<h[t]._label>> ELSE <<>>,
   files |-> IF h[t].kind = "ReferenceSchema" THEN {h[t]._file} ELSE {}]

\* clone(t): a new object with t's prototype and t's own properties (shallow).
\* Object.create runs no constructor: no label is registered and no entry of
\* externalFiles is set (registered and files list what the call registers).
clone(h, t) ==
  [id |-> Len(h) + 1, heap |-> Append(h, h[t]), registered |-> <<>>, files |-> {}]

(***************************************************************************)
(* Modifiers: each returns [id, heap], the new object and the heap holding *)
(* it; those of Schema, which Fixed and Reference nodes have too, return   *)
(* with them what the call did to the two registries.                      *)
(***************************************************************************)
required(h, t) ==
  LET c == clone(h, t)
  IN [c EXCEPT !.heap[c.id]._required = Some(TRUE)]

deprecated(h, t) ==
  LET c == clone(h, t)
  IN [c EXCEPT !.heap[c.id]._deprecated = Some(TRUE)]

examples(h, t, ex) ==
  LET c == clone(h, t)
  IN [c EXCEPT !.heap[c.id]._examples = Some(ex)]

description(h, t, d) ==
  LET c == clone(h, t)
  IN [id |-> c.id, heap |-> [c.heap EXCEPT ![c.id]._description = Some(d)]]

example(h, t, d) ==
  LET c == clone(h, t)
  IN [id |-> c.id, heap |-> [c.heap EXCEPT ![c.id]._example = Some(d)]]

StringField_min(h, t, d) ==
  LET c == clone(h, t)
  IN [id |-> c.id, heap |-> [c.heap EXCEPT ![c.id]._minLength = Some(d)]]

StringField_max(h, t, d) ==
  LET c == clone(h, t)
  IN [id |-> c.id, heap |-> [c.heap EXCEPT ![c.id]._maxLength = Some(d)]]

pattern(h, t, d) ==
  LET c == clone(h, t)
  IN [id |-> c.id, heap |-> [c.heap EXCEPT ![c.id]._regex = Some(d)]]

iso(h, t) ==
  LET c == clone(h, t)
  IN [id |-> c.id,
      heap |-> [c.heap EXCEPT ![c.id]._format = Some(<<"date-time">>)]]

NumberField_min(h, t, d) ==
  LET c == clone(h, t)
  IN [id |-> c.id, heap |-> [c.heap EXCEPT ![c.id]._min = Some(d)]]

NumberField_max(h, t, d) ==
  LET c == clone(h, t)
  IN [id |-> c.id, heap |-> [c.heap EXCEPT ![c.id]._max = Some(d)]]

default(h, t, d) ==
  LET c == clone(h, t)
  IN [id |-> c.id, heap |-> [c.heap EXCEPT ![c.id]._default = Some(d)]]

additionalProperties(h, t, d) ==
  LET c == clone(h, t)
  IN [id |-> c.id,
      heap |-> [c.heap EXCEPT ![c.id]._additionalProperties = Some(d)]]

items(h, t, d) ==
  LET c == clone(h, t)
  IN [id |-> c.id, heap |-> [c.heap EXCEPT ![c.id]._items = Some(d)]]

(***************************************************************************)
(* Constructors                                                            *)
(***************************************************************************)
\* new StringField(), new BooleanField(), new DateField(), new NumberField()
NewLeaf(h, kind) == [id |-> Len(h) + 1, heap |-> Append(h, NewSchema(kind))]

EnumField_new(h, values) ==
  [id |-> Len(h) + 1,
   heap |-> Append(h, [NewSchema("EnumField") EXCEPT !._enum = values])]

ObjectField_new(h, fields) ==
  [id |-> Len(h) + 1,
   heap |-> Append(h, [NewSchema("ObjectField") EXCEPT !._fields = fields])]

ArrayField_new(h) ==
  [id |-> Len(h) + 1,
   heap |-> Append(h, [NewSchema("ArrayField") EXCEPT !._explode = Some(TRUE)])]

OneOfSchema_new(h, values) ==
  [id |-> Len(h) + 1,
   heap |-> Append(h, [NewSchema("OneOfSchema") EXCEPT !._schemas = values])]

AnyOfSchema_new(h, values) ==
  [id |-> Len(h) + 1,
   heap |-> Append(h, [NewSchema("AnyOfSchema") EXCEPT !._schemas = values])]

\* a faulty variant: the label is stored as given
FixedSchema_new_rawLabel(h, reg, schema, lbl) ==
  [id |-> Len(h) + 1,
   heap |-> Append(h, [NewSchema("FixedSchema") EXCEPT
                         !._schema = Some(schema),
                         !._label = lbl,
                         !._required = h[schema]._required,
                         !._deprecated = h[schema]._deprecated,
                         !._explode = h[schema]._explode]),
   registered |-> Append(reg, lbl)]

\* new FixedSchema(schema, label): registers the normalized label
FixedSchema_new(h, reg, schema, lbl) ==
  [id |-> Len(h) + 1,
   heap |-> Append(h, [NewSchema("FixedSchema") EXCEPT
                         !._schema = Some(schema),
                         !._label = toSchemaName(lbl),
                         !._required = h[schema]._required,
                         !._deprecated = h[schema]._deprecated,
                         !._explode = h[schema]._explode]),
   registered |-> Append(reg, toSchemaName(lbl))]

label(h, reg, t, d) == FixedSchema_new(h, reg, t, d)

\* externalFiles[file] = value
SetFile(ef, file, value) == ObjSet(ef, file, value)

\* externalFiles[file]: <<>> stands for both "" and a missing key (both falsy)
GetFile(ef, file) ==
  IF HasKey(ef, file)
  THEN ef[CHOOSE i \in 1..Len(ef) : ef[i][1] = file][2]
  ELSE <<>>

\* new ReferenceSchema(file, path): the file's entry is (re)set to ""
ReferenceSchema_new(h, ef, file, path) ==
  [id |-> Len(h) + 1,
   heap |-> Append(h, [NewSchema("ReferenceSchema") EXCEPT
                         !._file = file, !._path = path]),
   externalFiles |-> SetFile(ef, file, <<>>)]

(***************************************************************************)
(* Serialization.  options is [type |-> "flat"] or [type |-> "referenced"] *)
(***************************************************************************)
RECURSIVE toJSonSchema(_, _, _, _)

baseFields(h, n) ==
  << <<"description", OptStr(h[n]._description)>>,
     <<"example", OptJ(h[n]._example)>>,
     <<"deprecated", OptBool(h[n]._deprecated)>> >>

StringField_ownFields(h, n) ==
  << <<"type", JStr(<<"string">>)>>,
     <<"minLength", OptNum(h[n]._minLength)>>,
     <<"maxLength", OptNum(h[n]._maxLength)>>,
     <<"pattern", OptStr(h[n]._regex)>> >>

BooleanField_ownFields(h, n) == << <<"type", JStr(<<"boolean">>)>> >>

DateField_ownFields(h, n) ==
  << <<"type", JStr(<<"string">>)>>, <<"format", OptStr(h[n]._format)>> >>

NumberField_ownFields(h, n) ==
  << <<"type", JStr(<<"number">>)>>,
     <<"minimum", OptNum(h[n]._min)>>,
     <<"maximum", OptNum(h[n]._max)>>,
     <<"default", OptNum(h[n]._default)>> >>

EnumField_ownFields(h, n) ==
  << <<"type", JStr(<<"string">>)>>,
     <<"enum", JArr(Tup([i \in 1..Len(h[n]._enum) |-> JStr(h[n]._enum[i])]))>> >>

\* a faulty variant: a field also counts as required when one of its own
\* fields is required
ObjectField_ownFields_deepRequired(h, ef, n, options) ==
  LET fields == h[n]._fields
      fieldNames == Keys(fields)
      requiredFields ==
        SelectSeq(fields, LAMBDA f :
          \/ h[f[2]]._required = Some(TRUE)
          \/ \E j \in 1..Len(h[f[2]]._fields) :
               h[h[f[2]]._fields[j][2]]._required = Some(TRUE))
      properties(props) ==
        Guard(Tup([i \in 1..Len(props) |-> props[i][2]]), JObj(ObjLit(props)))
      requiredNames(req) ==
        IF Len(req) > 0
        THEN JArr(Tup([i \in 1..Len(req) |-> JStr(<<req[i][1]>>)]))
        ELSE JUndef
  IN << <<"type", JStr(<<"object">>)>>,
        <<"description", OptStr(h[n]._description)>>,
        <<"properties",
          IF Len(fieldNames) = 0 THEN JUndef
          ELSE properties(Tup([i \in 1..Len(fields) |->
                 <<fields[i][1], toJSonSchema(h, ef, fields[i][2], options)>>]))>>,
        <<"additionaProperties", OptBool(h[n]._additionalProperties)>>,
        <<"required", requiredNames(requiredFields)>> >>

ObjectField_ownFields(h, ef, n, options) ==
  LET fields == h[n]._fields
      fieldNames == Keys(fields)
      requiredFields ==
        SelectSeq(fields, LAMBDA f : h[f[2]]._required = Some(TRUE))
      properties(props) ==
        Guard(Tup([i \in 1..Len(props) |-> props[i][2]]), JObj(ObjLit(props)))
      requiredNames(req) ==
        IF Len(req) > 0
        THEN JArr(Tup([i \in 1..Len(req) |-> JStr(<<req[i][1]>>)]))
        ELSE JUndef
  IN << <<"type", JStr(<<"object">>)>>,
        <<"description", OptStr(h[n]._description)>>,
        <<"properties",
          IF Len(fieldNames) = 0 THEN JUndef
          ELSE properties(Tup([i \in 1..Len(fields) |->
                 <<fields[i][1], toJSonSchema(h, ef, fields[i][2], options)>>]))>>,
        <<"additionaProperties", OptBool(h[n]._additionalProperties)>>,
        <<"required", requiredNames(requiredFields)>> >>

ArrayField_ownFields(h, ef, n, options) ==
  << <<"type", JStr(<<"array">>)>>,
     <<"items",
       IF h[n]._items = Undefined THEN JUndef
       ELSE toJSonSchema(h, ef, Val(h[n]._items), options)>> >>

ownFields(h, ef, n, options) ==
  CASE h[n].kind = "StringField" -> StringField_ownFields(h, n)
    [] h[n].kind = "BooleanField" -> BooleanField_ownFields(h, n)
    [] h[n].kind = "DateField" -> DateField_ownFields(h, n)
    [] h[n].kind = "NumberField" -> NumberField_ownFields(h, n)
    [] h[n].kind = "EnumField" -> EnumField_ownFields(h, n)
    [] h[n].kind = "ObjectField" -> ObjectField_ownFields(h, ef, n, options)
    [] h[n].kind = "ArrayField" -> ArrayField_ownFields(h, ef, n, options)

ExtensibleSchema_toJSonSchema(h, ef, n, options) ==
  LET fragment(own) ==
        Guard(Tup([i \in 1..Len(own) |-> own[i][2]]),
          JObj(ignoreUndefined(
            ObjLit(<< <<"type", Get(own, "type")>>,
                      <<"format", Get(own, "format")>> >>
                   \o baseFields(h, n)
                   \o Rest(own, {"type", "format"})))))
  IN fragment(ownFields(h, ef, n, options))

FixedSchema_toJSonSchema(h, ef, n, options) ==
  IF options.type = "flat"
  THEN toJSonSchema(h, ef, Val(h[n]._schema), options)
  ELSE JObj(<< <<"$ref", JStr(<<"#/components/schemas/">> \o h[n]._label)>> >>)

\* a faulty variant: an unresolved entry is emitted as it is
ReferenceSchema_toJSonSchema_noCheck(h, ef, n) ==
  JObj(<< <<"$ref", JStr(GetFile(ef, h[n]._file) \o <<"#">> \o h[n]._path)>> >>)

ReferenceSchema_toJSonSchema(h, ef, n) ==
  LET sourceFilename == h[n]._file
      targetFilename == GetFile(ef, sourceFilename)
  IN IF Len(targetFilename) > 0
     THEN JObj(<< <<"$ref", JStr(targetFilename \o <<"#">> \o h[n]._path)>> >>)
     ELSE Throw(<<"External file not found: ">> \o sourceFilename)

OneOfSchema_toJSonSchema(h, ef, n, options) ==
  LET oneOf(alts) == Guard(alts, JObj(<< <<"oneOf", JArr(alts)>> >>))
  IN oneOf(Tup([i \in 1..Len(h[n]._schemas) |->
              toJSonSchema(h, ef, h[n]._schemas[i], options)]))

AnyOfSchema_toJSonSchema(h, ef, n, options) ==
  LET anyOf(alts) == Guard(alts, JObj(<< <<"anyOf", JArr(alts)>> >>))
  IN anyOf(Tup([i \in 1..Len(h[n]._schemas) |->
              toJSonSchema(h, ef, h[n]._schemas[i], options)]))

toJSonSchema(h, ef, n, options) ==
  CASE h[n].kind \in Extensible -> ExtensibleSchema_toJSonSchema(h, ef, n, options)
    [] h[n].kind = "FixedSchema" -> FixedSchema_toJSonSchema(h, ef, n, options)
    [] h[n].kind = "ReferenceSchema" -> ReferenceSchema_toJSonSchema(h, ef, n)
    [] h[n].kind = "OneOfSchema" -> OneOfSchema_toJSonSchema(h, ef, n, options)
    [] h[n].kind = "AnyOfSchema" -> AnyOfSchema_toJSonSchema(h, ef, n, options)

toComponent(h, ef, n, options) ==
  LET component(frag) == Guard(<<frag>>, JObj(<< <<toSchemaName(h[n]._label), frag>> >>))
  IN component(toJSonSchema(h, ef, Val(h[n]._schema), options))

\* a faulty variant: the Fixed node itself is handed back
getReferencedSchema_self(h, n) == n

getReferencedSchema(h, n) == Val(h[n]._schema)

\* a faulty variant: the field's own flag is used for every location
paramRequired_ownFlag(parameterType, field) == OptBool(field._required)

\* the `required` of one parameter descriptor
paramRequired(parameterType, field) ==
  IF parameterType = "path" THEN JBool(TRUE) ELSE OptBool(field._required)

asParameterList(h, ef, n, parameterType, options) ==
  LET fields == h[n]._fields
      descriptor(key, id, frag) ==
        IF IsThrow(frag) THEN frag
        ELSE JObj(<< <<"description", Get(frag.obj, "description")>>,
                     <<"name", JStr(<<key>>)>>,
                     <<"in", JStr(<<parameterType>>)>>,
                     <<"explode", OptBool(h[id]._explode)>>,
                     <<"required", paramRequired(parameterType, h[id])>>,
                     <<"schema",
                       JObj(Rest(frag.obj, {"description", "example", "required"}))>> >>)
      one(key, id) ==
        descriptor(key, id,
          toJSonSchema(h, ef,
            IF h[id].kind = "FixedSchema" THEN getReferencedSchema(h, id) ELSE id,
            options))
      parameters(list) == Guard(list, JArr(list))
  IN parameters(Tup([i \in 1..Len(fields) |-> one(fields[i][1], fields[i][2])]))

asResponseHeaders(h, ef, n, options) ==
  LET fields == h[n]._fields
      header(frag) ==
        IF IsThrow(frag) THEN frag
        ELSE JObj(<< <<"schema", JObj(<< <<"type", Get(frag.obj, "type")>> >>)>>,
                     <<"description", Get(frag.obj, "description")>> >>)
      headers(frags) ==
        Guard(frags, JObj(ObjLit(Tup([i \in 1..Len(fields) |->
                                        <<fields[i][1], header(frags[i])>>]))))
  IN headers(Tup([i \in 1..Len(fields) |-> toJSonSchema(h, ef, fields[i][2], options)]))

(***************************************************************************)
(* Routes.  A DefinedRoute is a record with an operationId field, a        *)
(* ReferencedRoute one with a ref field; optional properties are option    *)
(* sets, a missing `validate` is Undefined.                                *)
(***************************************************************************)
IsDefined(route) == "operationId" \in DOMAIN route

toLowerCase(method) ==
  CASE method = "GET" -> "get"
    [] method = "POST" -> "post"
    [] method = "PUT" -> "put"
    [] method = "PATCH" -> "patch"
    [] method = "DELETE" -> "delete"

\* obj[k] = v on a JS object whose keys are all integer-like: such keys
\* enumerate in ascending numeric order, whatever the insertion order
IdxSet(o, k, v) ==
  IF HasKey(o, k)
  THEN Tup([i \in 1..Len(o) |-> IF o[i][1] = k THEN <<k, v>> ELSE o[i]])
  ELSE LET below == SelectSeq(o, LAMBDA p : p[1] < k)
           above == SelectSeq(o, LAMBDA p : p[1] > k)
       IN below \o << <<k, v>> >> \o above

RECURSIVE IdxLit(_)
IdxLit(pairs) ==
  IF pairs = <<>> THEN <<>>
  ELSE LET n == Len(pairs)
       IN IdxSet(IdxLit(SubSeq(pairs, 1, n - 1)), pairs[n][1], pairs[n][2])

\* the keys of a JS object are strings
StrKeys(o) == Tup([i \in 1..Len(o) |-> <<ToString(o[i][1]), o[i][2]>>])

securityToJsonSchema(reqs) ==
  JArr(<< JObj(ObjLit(Tup([i \in 1..Len(reqs) |->
                         <<reqs[i].name,
                           JArr(Tup([j \in 1..Len(reqs[i].scopes) |->
                                   JStr(reqs[i].scopes[j])]))>>]))) >>)

\* a faulty variant: the headers are emitted whether or not there is a schema
toResponseSchema_headersWithoutSchema(h, ef, response, options) ==
  LET responseObject(hd, frag) ==
        Guard(<<hd, frag>>,
          JObj(ignoreUndefined(
            << <<"description", JStr(response.description)>>,
               <<"headers", hd>>,
               <<"content",
                 IF frag = JUndef THEN JUndef
                 ELSE JObj(<< <<"application/json",
                                JObj(<< <<"schema", frag>>,
                                        <<"examples", OptJ(response.examples)>> >>)>> >>)>> >>)))
  IN responseObject(
       IF response.headers = Undefined THEN JUndef
       ELSE asResponseHeaders(h, ef, Val(response.headers), options),
       IF response.schema = Undefined THEN JUndef
       ELSE toJSonSchema(h, ef, Val(response.schema), options))

toResponseSchema(h, ef, response, options) ==
  LET responseObject(hd, frag) ==
        Guard(<<hd, frag>>,
          JObj(ignoreUndefined(
            << <<"description", JStr(response.description)>>,
               <<"headers", hd>>,
               <<"content",
                 JObj(<< <<"application/json",
                           JObj(<< <<"schema", frag>>,
                                   <<"examples", OptJ(response.examples)>> >>)>> >>)>> >>)))
  IN IF response.schema # Undefined
     THEN responseObject(
            IF response.headers = Undefined THEN JUndef
            ELSE asResponseHeaders(h, ef, Val(response.headers), options),
            toJSonSchema(h, ef, Val(response.schema), options))
     ELSE JObj(<< <<"description", JStr(response.description)>> >>)

\* /\/([^\/]+)/.exec(path)?.[1] on a path given as its tokens
pathAsTag(path) ==
  LET hits == { i \in 1..(Len(path) - 1) : path[i] = "/" /\ path[i + 1] # "/" }
  IN IF hits = {} THEN Undefined
     ELSE Some(path[1 + CHOOSE i \in hits : \A j \in hits : i <= j])

\* a faulty variant: the path parameters are listed before the header parameters
routeParameters_pathFirst(h, ef, route, options) ==
  LET v == route.validate
      part(obj, loc) ==
        IF obj = Undefined THEN JArr(<<>>)
        ELSE asParameterList(h, ef, Val(obj), loc, options)
      concat(hs, ps, qs) == Guard(<<hs, ps, qs>>, JArr(ps.arr \o hs.arr \o qs.arr))
  IN concat(part(IF v = Undefined THEN Undefined ELSE Val(v).headers, "header"),
            part(IF v = Undefined THEN Undefined ELSE Val(v).path, "path"),
            part(IF v = Undefined THEN Undefined ELSE Val(v).query, "query"))

\* the `parameters` array of a DefinedRoute
routeParameters(h, ef, route, options) ==
  LET v == route.validate
      part(obj, loc) ==
        IF obj = Undefined THEN JArr(<<>>)
        ELSE asParameterList(h, ef, Val(obj), loc, options)
      concat(hs, ps, qs) == Guard(<<hs, ps, qs>>, JArr(hs.arr \o ps.arr \o qs.arr))
  IN concat(part(IF v = Undefined THEN Undefined ELSE Val(v).headers, "header"),
            part(IF v = Undefined THEN Undefined ELSE Val(v).path, "path"),
            part(IF v = Undefined THEN Undefined ELSE Val(v).query, "query"))

routeToJsonSchema(h, ef, route, options) ==
  LET body == IF route.validate = Undefined THEN Undefined
              ELSE Val(route.validate).body
      content(frag) ==
        Guard(<<frag>>,
          JObj(<< <<"content",
                    JObj(<< <<"application/json",
                              JObj(<< <<"schema", frag>>,
                                      <<"examples", OptJ(h[Val(body)]._examples)>> >>)>> >>)>> >>))
      tags == IF route.tags # Undefined
              THEN JArr(Tup([i \in 1..Len(Val(route.tags)) |-> JStr(Val(route.tags)[i])]))
              ELSE IF pathAsTag(route.path) # Undefined
                   THEN JArr(<< JStr(<<Val(pathAsTag(route.path))>>) >>)
                   ELSE JUndef
      errs == IF route.errorResponses = Undefined THEN <<>>
              ELSE Val(route.errorResponses)
      operation(parameters, requestBody, resps) ==
        Guard(<<parameters, requestBody>> \o Tup([i \in 1..Len(resps) |-> resps[i][2]]),
          JObj(ignoreUndefined(
            << <<"summary", JStr(route.description)>>,
               <<"operationId", JStr(route.operationId)>>,
               <<"description", OptStr(route.notes)>>,
               <<"deprecated", OptBool(route.deprecated)>>,
               <<"parameters",
                 IF Len(parameters.arr) > 0 THEN parameters ELSE JUndef>>,
               <<"requestBody", requestBody>>,
               <<"tags", tags>>,
               <<"security",
                 IF route.security = Undefined THEN JUndef
                 ELSE securityToJsonSchema(Val(route.security))>>,
               <<"responses", JObj(StrKeys(IdxLit(resps)))>>,
               <<"x-order", OptNum(route.order)>> >>)))
  IN IF IsDefined(route)
     THEN operation(
            routeParameters(h, ef, route, options),
            IF body = Undefined THEN JUndef
            ELSE content(toJSonSchema(h, ef, Val(body), options)),
            << <<route.successResponse.statusCode,
                 toResponseSchema(h, ef, route.successResponse, options)>> >>
            \o IdxLit(Tup([i \in 1..Len(errs) |->
                         <<errs[i].statusCode,
                           toResponseSchema(h, ef, errs[i], options)>>])))
     ELSE JObj(ignoreUndefined(
            << <<"$ref", JStr(route.ref.file \o <<"#">> \o route.ref.path)>>,
               <<"deprecated", OptBool(route.deprecated)>> >>))

(***************************************************************************)
(* makeSchema: the synchronous assembly of the document                    *)
(***************************************************************************)
Sentinel == 10000

\* a faulty variant: a route without order sorts first
orderKey_zero(route) == IF route.order = Undefined THEN 0 ELSE Val(route.order)

\* a.order == undefined ? 10000 : a.order
orderKey(route) == IF route.order = Undefined THEN Sentinel ELSE Val(route.order)

\* a faulty variant: a route goes before the routes of equal order already placed
insertRoute_unstable(sorted, route) ==
  SelectSeq(sorted, LAMBDA r : orderKey(r) - orderKey(route) < 0)
  \o <<route>>
  \o SelectSeq(sorted, LAMBDA r : ~(orderKey(r) - orderKey(route) < 0))

\* one step of the stable Array.prototype.sort under the comparator a - b
insertRoute(sorted, route) ==
  SelectSeq(sorted, LAMBDA r : orderKey(r) - orderKey(route) <= 0)
  \o <<route>>
  \o SelectSeq(sorted, LAMBDA r : ~(orderKey(r) - orderKey(route) <= 0))

RECURSIVE sortedRoutes(_)
sortedRoutes(rs) ==
  IF rs = <<>> THEN <<>>
  ELSE insertRoute(sortedRoutes(SubSeq(rs, 1, Len(rs) - 1)), rs[Len(rs)])

\* sortedRoutes.reduce(...): the path-item map, or the error a route threw
RECURSIVE paths(_, _, _, _)
paths(h, ef, sorted, options) ==
  LET n == Len(sorted)
      route == sorted[n]
      add(acc, frag) ==
        IF IsThrow(acc) THEN acc
        ELSE IF IsThrow(frag) THEN frag
        ELSE JObj(ObjSet(acc.obj, route.path,
                    JObj(ObjSet(IF HasKey(acc.obj, route.path)
                                THEN Get(acc.obj, route.path).obj ELSE <<>>,
                                toLowerCase(route.method), frag))))
  IN IF sorted = <<>> THEN JObj(<<>>)
     ELSE add(paths(h, ef, SubSeq(sorted, 1, n - 1), options),
              routeToJsonSchema(h, ef, route, options))

RECURSIVE Flatten(_)
Flatten(seqs) ==
  IF seqs = <<>> THEN <<>>
  ELSE Flatten(SubSeq(seqs, 1, Len(seqs) - 1)) \o seqs[Len(seqs)]

RECURSIVE collectRefSchemasForSchema(_, _)
collectRefSchemasForSchema(h, schema) ==
  IF schema = Undefined THEN <<>>
  ELSE LET n == Val(schema)
       IN CASE h[n].kind = "FixedSchema" ->
                 <<n>> \o collectRefSchemasForSchema(h, h[n]._schema)
            [] h[n].kind = "ObjectField" ->
                 Flatten(Tup([i \in 1..Len(h[n]._fields) |->
                            collectRefSchemasForSchema(h, Some(h[n]._fields[i][2]))]))
            [] h[n].kind = "ArrayField" ->
                 collectRefSchemasForSchema(h, h[n]._items)
            [] OTHER -> <<>>

collectRefSchemasForRoute(h, route) ==
  IF "validate" \in DOMAIN route /\ route.validate # Undefined
  THEN LET v == Val(route.validate)
           errs == IF route.errorResponses = Undefined THEN <<>>
                   ELSE Val(route.errorResponses)
           schemas == <<v.path, v.headers, v.query, v.body,
                        route.successResponse.schema>>
                      \o Tup([i \in 1..Len(errs) |-> errs[i].schema])
       IN Flatten(Tup([i \in 1..Len(schemas) |->
                     collectRefSchemasForSchema(h, schemas[i])]))
  ELSE <<>>

toSchemaObject(h, ef, schemas, options) ==
  LET merge(comps) ==
        Guard(comps, JObj(ObjLit(Flatten(Tup([i \in 1..Len(comps) |-> comps[i].obj])))))
  IN merge(Tup([i \in 1..Len(schemas) |-> toComponent(h, ef, schemas[i], options)]))

\* the params of the build that the model keeps fixed
Params ==
  [info |-> JObj(<< <<"title", JStr(<<"api">>)>>, <<"version", JStr(<<"1">>)>> >>),
   tags |-> JArr(<< JStr(<<"t">>) >>),
   servers |-> JArr(<< JObj(<< <<"url", JStr(<<"http://h">>)>> >>) >>)]

\* the `schema` object of makeSchema, or the error thrown while it is built;
\* rs is params.routes and sorted the sorted copy of it
assembleSchema(h, ef, rs, sorted, options) ==
  LET document(ps, schemas) ==
        Guard(<<ps, schemas>>,
          JObj(<< <<"openapi", JStr(<<"3.0.0">>)>>,
                  <<"security", JUndef>>,
                  <<"info", Params.info>>,
                  <<"tags", Params.tags>>,
                  <<"paths", ps>>,
                  <<"servers", Params.servers>>,
                  <<"components",
                    JObj(<< <<"securitySchemes", JUndef>>, <<"schemas", schemas>> >>)>> >>))
  IN document(
       paths(h, ef, sorted, options),
       IF options.type = "referenced"
       THEN toSchemaObject(h, ef,
              Flatten(Tup([i \in 1..Len(rs) |-> collectRefSchemasForRoute(h, rs[i])])),
              options)
       ELSE JObj(<<>>))

\* JSON.stringify followed by JSON.parse: undefined-valued keys are gone
RECURSIVE stringify(_)
stringify(v) ==
  CASE "obj" \in DOMAIN v ->
         LET kept == SelectSeq(v.obj, LAMBDA p : p[2] # JUndef)
         IN JObj(Tup([i \in 1..Len(kept) |-> <<kept[i][1], stringify(kept[i][2])>>]))
    [] "arr" \in DOMAIN v ->
         JArr(Tup([i \in 1..Len(v.arr) |->
                 IF v.arr[i] = JUndef THEN JNull ELSE stringify(v.arr[i])]))
    [] OTHER -> v

getDuplicateFixedSchemas(reg) ==
  LET count(s) == Cardinality({ i \in 1..Len(reg) : reg[i] = s })
      firstAt(s) == CHOOSE i \in 1..Len(reg) : reg[i] = s /\ \A j \in 1..(i - 1) : reg[j] # s
      idx == SelectSeq(Tup([i \in 1..Len(reg) |-> i]),
                       LAMBDA i : i = firstAt(reg[i]) /\ count(reg[i]) > 1)
  IN Tup([k \in 1..Len(idx) |-> reg[idx[k]]])

(***************************************************************************)
(* The caller's program: DSL calls.  `last` records the call.              *)
(***************************************************************************)
MaxNodes == 3

Labels == { <<"A", " ", "B">>, <<"A", "_", "B">> }
Files == { <<"a", "/", "x">>, <<"b", "/", "x">> }
Pointer == <<"/definitions/Widget">>
FieldNames == <<"a", "b">>
ExampleValues == { JNum(0), JNull }

\* the state of a makeSchema call that has not been made yet
NoBuild ==
  [ pc |-> "idle", options |-> [type |-> "flat"], output |-> [type |-> "none"],
    transformations |-> Undefined,
    tempDir |-> <<>>, tasks |-> <<>>, sortedRoutes |-> <<>>, rendered |-> FALSE,
    schema |-> JUndef, finalSchema |-> JUndef,
    result |-> "pending", value |-> JUndef, error |-> <<>>, rm |-> "none" ]
EmptyFs == [dirs |-> {}, files |-> <<>>, writes |-> <<>>, made |-> 0]
Ids == 1..Len(heap)
Room == Len(heap) < MaxNodes
Called(op, t, r) == last' = [op |-> op, receiver |-> t, result |-> r]
Pure == UNCHANGED <<registeredFixedSchemas, externalFiles, routes, build, fs, stdout>>
\* the registries after a call of a modifier of Schema that returned r
Modified(r) ==
  /\ registeredFixedSchemas' = registeredFixedSchemas \o r.registered
  /\ externalFiles' = IF r.files = {} THEN externalFiles
                      ELSE SetFile(externalFiles, CHOOSE f \in r.files : TRUE, <<>>)
  /\ UNCHANGED <<routes, build, fs, stdout>>
OfKind(kinds) == { n \in Ids : heap[n].kind \in kinds }

oas_string ==
  /\ Room
  /\ LET r == NewLeaf(heap, "StringField") IN heap' = r.heap /\ Called("string", 0, r.id)
  /\ Pure
oas_boolean ==
  /\ Room
  /\ LET r == NewLeaf(heap, "BooleanField") IN heap' = r.heap /\ Called("boolean", 0, r.id)
  /\ Pure
oas_date ==
  /\ Room
  /\ LET r == NewLeaf(heap, "DateField") IN heap' = r.heap /\ Called("date", 0, r.id)
  /\ Pure
oas_number ==
  /\ Room
  /\ LET r == NewLeaf(heap, "NumberField") IN heap' = r.heap /\ Called("number", 0, r.id)
  /\ Pure
oas_allow ==
  /\ Room
  /\ LET r == EnumField_new(heap, << <<"x">>, <<"y">> >>)
     IN heap' = r.heap /\ Called("allow", 0, r.id)
  /\ Pure
\* object(fields): fields maps the first k field names to existing nodes
oas_object ==
  /\ Room
  /\ \E k \in 0..Len(FieldNames) : \E ids \in [1..k -> Ids] :
       LET r == ObjectField_new(heap, Tup([i \in 1..k |-> <<FieldNames[i], ids[i]>>]))
       IN heap' = r.heap /\ Called("object", 0, r.id)
  /\ Pure
oas_array ==
  /\ Room
  /\ LET r == ArrayField_new(heap) IN heap' = r.heap /\ Called("array", 0, r.id)
  /\ Pure
oas_ref ==
  /\ Room
  /\ \E file \in Files :
       LET r == ReferenceSchema_new(heap, externalFiles, file, Pointer)
       IN /\ heap' = r.heap
          /\ externalFiles' = r.externalFiles
          /\ Called("ref", 0, r.id)
  /\ UNCHANGED <<registeredFixedSchemas, routes, build, fs, stdout>>
oas_oneOf ==
  /\ Room
  /\ \E a \in Ids : \E b \in { x \in Ids : x >= a } :
       LET r == OneOfSchema_new(heap, IF a = b THEN <<a>> ELSE <<a, b>>)
       IN heap' = r.heap /\ Called("oneOf", 0, r.id)
  /\ Pure
oas_anyOf ==
  /\ Room
  /\ \E a \in Ids : \E b \in { x \in Ids : x >= a } :
       LET r == AnyOfSchema_new(heap, IF a = b THEN <<a>> ELSE <<a, b>>)
       IN heap' = r.heap /\ Called("anyOf", 0, r.id)
  /\ Pure

Schema_required ==
  /\ Room
  /\ \E t \in Ids : LET r == required(heap, t)
                    IN heap' = r.heap /\ Called("required", t, r.id) /\ Modified(r)
Schema_deprecated ==
  /\ Room
  /\ \E t \in Ids : LET r == deprecated(heap, t)
                    IN heap' = r.heap /\ Called("deprecated", t, r.id) /\ Modified(r)
Schema_examples ==
  /\ Room
  /\ \E t \in Ids : LET r == examples(heap, t, JObj(<< <<"one", JObj(<< <<"value", JNum(1)>> >>)>> >>))
                    IN heap' = r.heap /\ Called("examples", t, r.id) /\ Modified(r)
ExtensibleSchema_description ==
  /\ Room
  /\ \E t \in OfKind(Extensible) :
       LET r == description(heap, t, <<"d">>)
       IN heap' = r.heap /\ Called("description", t, r.id)
  /\ Pure
ExtensibleSchema_example ==
  /\ Room
  /\ \E t \in OfKind(Extensible) : \E d \in ExampleValues :
       LET r == example(heap, t, d)
       IN heap' = r.heap /\ Called("example", t, r.id)
  /\ Pure
ExtensibleSchema_label ==
  /\ Room
  /\ \E t \in OfKind(Extensible) : \E d \in Labels :
       LET r == label(heap, registeredFixedSchemas, t, d)
       IN /\ heap' = r.heap
          /\ registeredFixedSchemas' = r.registered
          /\ last' = [op |-> "label", receiver |-> t, result |-> r.id, arg |-> d]
  /\ UNCHANGED <<externalFiles, routes, build, fs, stdout>>
StringField_min_max ==
  /\ Room
  /\ \E t \in OfKind({"StringField"}) :
       \/ LET r == StringField_min(heap, t, 0)
          IN heap' = r.heap /\ Called("min", t, r.id)
       \/ LET r == StringField_max(heap, t, 1)
          IN heap' = r.heap /\ Called("max", t, r.id)
  /\ Pure
StringField_pattern ==
  /\ Room
  /\ \E t \in OfKind({"StringField"}) :
       LET r == pattern(heap, t, <<"^a$">>)
       IN heap' = r.heap /\ Called("pattern", t, r.id)
  /\ Pure
DateField_iso ==
  /\ Room
  /\ \E t \in OfKind({"DateField"}) :
       LET r == iso(heap, t) IN heap' = r.heap /\ Called("iso", t, r.id)
  /\ Pure
NumberField_min_max_default ==
  /\ Room
  /\ \E t \in OfKind({"NumberField"}) :
       \/ LET r == NumberField_min(heap, t, 0)
          IN heap' = r.heap /\ Called("min", t, r.id)
       \/ LET r == NumberField_max(heap, t, 1)
          IN heap' = r.heap /\ Called("max", t, r.id)
       \/ LET r == default(heap, t, 0)
          IN heap' = r.heap /\ Called("default", t, r.id)
  /\ Pure
ObjectField_additionalProperties ==
  /\ Room
  /\ \E t \in OfKind({"ObjectField"}) : \E d \in BOOLEAN :
       LET r == additionalProperties(heap, t, d)
       IN heap' = r.heap /\ Called("additionalProperties", t, r.id)
  /\ Pure
ArrayField_items ==
  /\ Room
  /\ \E t \in OfKind({"ArrayField"}) : \E d \in Ids :
       LET r == items(heap, t, d)
       IN heap' = r.heap /\ Called("items", t, r.id)
  /\ Pure

InitNodes ==
  /\ heap = <<>>
  /\ registeredFixedSchemas = <<>>
  /\ externalFiles = <<>>
  /\ last = [op |-> "none", receiver |-> 0, result |-> 0]
  /\ routes = <<>>
  /\ build = <<NoBuild>>
  /\ fs = EmptyFs
  /\ stdout = <<>>

NextNodes ==
  \/ oas_string \/ oas_boolean \/ oas_date \/ oas_number \/ oas_allow
  \/ oas_object \/ oas_array \/ oas_ref \/ oas_oneOf \/ oas_anyOf
  \/ Schema_required \/ Schema_deprecated \/ Schema_examples
  \/ ExtensibleSchema_description \/ ExtensibleSchema_example
  \/ ExtensibleSchema_label
  \/ StringField_min_max \/ StringField_pattern \/ DateField_iso
  \/ NumberField_min_max_default
  \/ ObjectField_additionalProperties \/ ArrayField_items

\* the caller's program alone: any DSL calls, up to MaxNodes objects
SpecNodes == InitNodes /\ [][NextNodes]_vars

(***************************************************************************)
(* Serialization calls on the nodes of a small program                     *)
(***************************************************************************)
Flat == [type |-> "flat"]
Referenced == [type |-> "referenced"]

MaxParams == 2
ParamNames == <<"id", "age", "q", "r">>
Locations == { "path", "query", "header", "cookie" }
Modes == { Flat, Referenced }

\* const s = string(), r = s.required(), n = number(), m = n.min(0),
\*       e = s.example(0)                                (objects 1 to 5)
LeafProgram ==
  LET h1 == NewLeaf(<<>>, "StringField").heap
      h2 == required(h1, 1).heap
      h3 == NewLeaf(h2, "NumberField").heap
      h4 == NumberField_min(h3, 3, 0).heap
  IN example(h4, 1, JNum(0)).heap

\* ... then f = <one of them>.label(d), o = object({...}) over up to
\* MaxParams of the objects so far, and p = object({q: o, r: <s or r>})
InitSerialize ==
  /\ \E t \in 1..Len(LeafProgram) : \E d \in Labels :
       LET f == label(LeafProgram, <<>>, t, d)
       IN /\ registeredFixedSchemas = f.registered
          /\ \E k \in 0..MaxParams : \E ids \in [1..k -> 1..f.id] : \E x \in 1..2 :
               LET o == ObjectField_new(f.heap,
                          Tup([i \in 1..k |-> <<ParamNames[i], ids[i]>>]))
               IN heap = ObjectField_new(o.heap, << <<"q", o.id>>, <<"r", x>> >>).heap
  /\ externalFiles = <<>>
  /\ last = [op |-> "none", receiver |-> 0, result |-> 0]
  /\ routes = <<>>
  /\ build = <<NoBuild>>
  /\ fs = EmptyFs
  /\ stdout = <<>>

Call_toJSonSchema ==
  /\ last.op = "none"
  /\ \E n \in Ids : \E options \in Modes :
       last' = [op |-> "toJSonSchema", receiver |-> n, options |-> options,
                result |-> toJSonSchema(heap, externalFiles, n, options)]
  /\ UNCHANGED <<heap, registeredFixedSchemas, externalFiles, routes, build, fs, stdout>>

Call_toComponent ==
  /\ last.op = "none"
  /\ \E n \in OfKind({"FixedSchema"}) : \E options \in Modes :
       last' = [op |-> "toComponent", receiver |-> n, options |-> options,
                result |-> toComponent(heap, externalFiles, n, options)]
  /\ UNCHANGED <<heap, registeredFixedSchemas, externalFiles, routes, build, fs, stdout>>

Call_asParameterList ==
  /\ last.op = "none"
  /\ \E n \in OfKind({"ObjectField"}) : \E loc \in Locations : \E options \in Modes :
       last' = [op |-> "asParameterList", receiver |-> n, options |-> options,
                parameterType |-> loc,
                result |-> asParameterList(heap, externalFiles, n, loc, options)]
  /\ UNCHANGED <<heap, registeredFixedSchemas, externalFiles, routes, build, fs, stdout>>

Call_asResponseHeaders ==
  /\ last.op = "none"
  /\ \E n \in OfKind({"ObjectField"}) : \E options \in Modes :
       last' = [op |-> "asResponseHeaders", receiver |-> n, options |-> options,
                result |-> asResponseHeaders(heap, externalFiles, n, options)]
  /\ UNCHANGED <<heap, registeredFixedSchemas, externalFiles, routes, build, fs, stdout>>

NextSerialize ==
  \/ Call_toJSonSchema \/ Call_toComponent
  \/ Call_asParameterList \/ Call_asResponseHeaders

\* one serialization call on a program of leaves, a Fixed node, an Object over
\* them and an Object over that Object
SpecSerialize == InitSerialize /\ [][NextSerialize]_vars

(***************************************************************************)
(* makeSchema: the asynchronous pipeline.  build[b] is the state of call b; *)
(* a step is what runs between two awaited I/O completions.                *)
(***************************************************************************)
\* prettier.format(text): formatted text; JSON.parse reads the value back
prettify(data) == [text |-> data]
JSON_parse(text) == text.text

\* String(array): the elements joined by ","
RECURSIVE Join(_)
Join(strs) ==
  IF strs = <<>> THEN <<>>
  ELSE IF Len(strs) = 1 THEN strs[1]
  ELSE Join(SubSeq(strs, 1, Len(strs) - 1)) \o <<",">> \o strs[Len(strs)]

\* the value a transformation function returns for the current value
applyFn(fn, currentValue) ==
  CASE fn = "identity" -> currentValue
    [] fn = "setX" -> JStr(<<"X">>)
    [] fn = "wrap" -> JArr(<<currentValue>>)
    [] fn = "throws" -> Throw(<<"transformation failed">>)

\* jp.apply(obj, "$.<key>", fn) on the document object
jp_apply(obj, t) ==
  IF IsThrow(obj) \/ ~HasKey(obj.obj, t.jsonPath) THEN obj
  ELSE LET v == applyFn(t.fn, Get(obj.obj, t.jsonPath))
       IN IF IsThrow(v) THEN v ELSE JObj(ObjSet(obj.obj, t.jsonPath, v))

\* params.transformations.forEach((t) => jp.apply(obj, t.jsonPath, t.fn))
RECURSIVE applyTransformations(_, _)
applyTransformations(obj, ts) ==
  IF ts = <<>> THEN obj
  ELSE jp_apply(applyTransformations(obj, SubSeq(ts, 1, Len(ts) - 1)), ts[Len(ts)])

\* every "$ref" string below v
RECURSIVE Refs(_)
Refs(v) ==
  CASE "obj" \in DOMAIN v ->
         UNION { IF v.obj[i][1] = "$ref" THEN {v.obj[i][2].str}
                 ELSE Refs(v.obj[i][2]) : i \in 1..Len(v.obj) }
    [] "arr" \in DOMAIN v -> UNION { Refs(v.arr[i]) : i \in 1..Len(v.arr) }
    [] OTHER -> {}

IsInternalRef(ref) == Len(ref) > 0 /\ ref[1] = "#/components/schemas/"
\* the file part of an external "$ref" string <file>#<pointer>
RefFile(ref) == SubSeq(ref, 1, lastIndexOf(ref, "#") - 1)

\* $RefParser.dereference / bundle, as far as the model looks into it: an
\* external pointer is replaced by what it points to; the pointers into
\* components are left as they are
RECURSIVE RefParser(_)
RefParser(v) ==
  CASE "obj" \in DOMAIN v ->
         IF HasKey(v.obj, "$ref") /\ ~IsInternalRef(Get(v.obj, "$ref").str)
         THEN JObj(<< <<"x-inlined", Get(v.obj, "$ref")>> >>)
         ELSE JObj(Tup([i \in 1..Len(v.obj) |-> <<v.obj[i][1], RefParser(v.obj[i][2])>>]))
    [] "arr" \in DOMAIN v -> JArr(Tup([i \in 1..Len(v.arr) |-> RefParser(v.arr[i])]))
    [] OTHER -> v

NewBuild(options, output, transformations) ==
  [NoBuild EXCEPT !.pc = "mkdtemp", !.options = options, !.output = output,
                  !.transformations = transformations]

\* a faulty variant: the directory is removed only after a successful build
Finally_onlyOnSuccess(rec, outcome, error) ==
  [rec EXCEPT !.pc = "settled", !.result = outcome, !.error = error,
              !.rm = IF outcome = "fulfilled" THEN "started" ELSE "none"]

\* withTempDir's finally: fs.rm(dir) is started, then the promise settles
Finally(rec, outcome, error) ==
  [rec EXCEPT !.pc = "settled", !.result = outcome, !.error = error,
              !.rm = "started"]

writeFile(f, path, content) ==
  [f EXCEPT !.files = ObjSet(f.files, path, content),
            !.writes = Append(f.writes, path)]

OutputFile == <<"out.json">>
FileExists(f, path) == HasKey(f.files, path)
InDir(dir, path) == Len(path) >= Len(dir) /\ SubSeq(path, 1, Len(dir)) = dir

TransformationLists ==
  { Undefined,
    Some(<<>>),
    Some(<< [jsonPath |-> "info", fn |-> "identity"] >>),
    Some(<< [jsonPath |-> "info", fn |-> "setX"] >>),
    Some(<< [jsonPath |-> "tags", fn |-> "wrap"], [jsonPath |-> "tags", fn |-> "setX"] >>),
    Some(<< [jsonPath |-> "tags", fn |-> "setX"], [jsonPath |-> "tags", fn |-> "wrap"] >>),
    Some(<< [jsonPath |-> "info", fn |-> "setX"], [jsonPath |-> "tags", fn |-> "throws"] >>) }
Outputs ==
  { [type |-> "stdout"], [type |-> "file", filename |-> OutputFile], [type |-> "none"] }

Builds == DOMAIN build
Rest7 == <<heap, registeredFixedSchemas, externalFiles, last, routes, fs, stdout>>

\* oas.makeSchema(params, options) is called: withTempDir starts fs.mkdtemp
makeSchema(b) ==
  /\ build[b].pc = "idle"
  /\ \E options \in Modes : \E output \in Outputs : \E ts \in TransformationLists :
       build' = [build EXCEPT ![b] = NewBuild(options, output, ts)]
  /\ UNCHANGED Rest7

\* fs.mkdtemp completes: a directory of a new name, or an error
mkdtemp(b) ==
  /\ build[b].pc = "mkdtemp"
  /\ \/ LET dir == <<"/tmp/oas-dsl", ToString(fs.made + 1)>>
        IN /\ fs' = [fs EXCEPT !.dirs = @ \cup {dir}, !.made = @ + 1]
           /\ build' = [build EXCEPT ![b].tempDir = dir, ![b].pc = "fn"]
     \/ /\ build' = [build EXCEPT ![b].pc = "settled", ![b].result = "rejected",
                                  ![b].error = <<"mkdtemp failed">>]
        /\ UNCHANGED fs
  /\ UNCHANGED <<heap, registeredFixedSchemas, externalFiles, last, routes, stdout>>

\* routes.forEach(...) of dereferenceExternalSchemas
RECURSIVE registerRouteFiles(_, _)
registerRouteFiles(ef, rs) ==
  IF rs = <<>> THEN ef
  ELSE LET before == registerRouteFiles(ef, SubSeq(rs, 1, Len(rs) - 1))
           route == rs[Len(rs)]
       IN IF "ref" \in DOMAIN route THEN SetFile(before, route.ref.file, <<>>)
          ELSE before

\* a faulty variant: the target is named after the base name alone
targetFilename_noIndex(tempDir, i, externalFilePath) ==
  tempDir \o <<"/", "spec-">> \o getFilename(externalFilePath)

\* path.join(tempDir, `spec-${i}-${getFilename(externalFilePath)}`)
targetFilename(tempDir, i, externalFilePath) ==
  tempDir \o <<"/", "spec-", ToString(i), "-">> \o getFilename(externalFilePath)

\* a faulty variant: the label check is made in both modes
mustCheckDuplicates_always(options) == TRUE

\* a faulty variant: a build that is given no route skips the label check
mustCheckDuplicates_withRoutes(options) == options.type = "referenced" /\ routes # <<>>

mustCheckDuplicates(options) == options.type = "referenced"

\* the callback of withTempDir up to its first await: the duplicate check,
\* then dereferenceExternalSchemas starts one task per key of externalFiles
fn_start(b) ==
  /\ build[b].pc = "fn"
  /\ LET duplicates == getDuplicateFixedSchemas(registeredFixedSchemas)
         ef == registerRouteFiles(externalFiles, routes)
     IN IF mustCheckDuplicates(build[b].options) /\ Len(duplicates) > 0
        THEN /\ build' = [build EXCEPT ![b] =
                   Finally(@, "rejected",
                           <<"Found duplicate fixed schemas: ">> \o Join(duplicates))]
             /\ UNCHANGED externalFiles
        ELSE /\ externalFiles' = ef
             /\ build' = [build EXCEPT
                   ![b].pc = "resolving",
                   ![b].tasks = Tup([i \in 1..Len(ef) |->
                      [file |-> ef[i][1],
                       target |-> targetFilename(build[b].tempDir, i - 1, ef[i][1]),
                       pc |-> "dereference", attempts |-> 1, error |-> <<>>]])]
  /\ UNCHANGED <<heap, registeredFixedSchemas, last, routes, fs, stdout>>

\* a faulty variant: a task that fails is started once more
TaskFails_retry(b, i, error) ==
  build' = [build EXCEPT
    ![b] = IF @.tasks[i].attempts < 2
           THEN [@ EXCEPT !.tasks[i].pc = "dereference", !.tasks[i].attempts = 2]
           ELSE LET rec == [@ EXCEPT !.tasks[i].pc = "failed", !.tasks[i].error = error]
                IN IF @.pc = "resolving" THEN Finally(rec, "rejected", error) ELSE rec]

\* a task fails: Promise.all rejects at the first failure, and the build
\* (if it still waits for the tasks) leaves through finally
TaskFails(b, i, error) ==
  build' = [build EXCEPT
    ![b] = LET rec == [@ EXCEPT !.tasks[i].pc = "failed", !.tasks[i].error = error]
           IN IF @.pc = "resolving" THEN Finally(rec, "rejected", error) ELSE rec]

\* $RefParser.dereference(externalFilePath) completes for task i
task_dereference(b, i) ==
  /\ build[b].tasks[i].pc = "dereference"
  /\ \/ build' = [build EXCEPT ![b].tasks[i].pc = "writeFile"]
     \/ TaskFails(b, i, <<"cannot dereference ">> \o build[b].tasks[i].file)
  /\ UNCHANGED Rest7

\* fs.writeFile(targetFilename) completes for task i, then the task records
\* the target in externalFiles
task_writeFile(b, i) ==
  /\ build[b].tasks[i].pc = "writeFile"
  /\ LET t == build[b].tasks[i]
     IN \/ /\ build[b].tempDir \in fs.dirs
           /\ fs' = writeFile(fs, t.target, prettify(JObj(<< <<"dereferenced", JStr(t.file)>> >>)))
           /\ externalFiles' = SetFile(externalFiles, t.file, t.target)
           /\ build' = [build EXCEPT ![b].tasks[i].pc = "done"]
        \/ /\ TaskFails(b, i, <<"cannot write ">> \o t.target)
           /\ UNCHANGED <<fs, externalFiles>>
  /\ UNCHANGED <<heap, registeredFixedSchemas, last, routes, stdout>>

\* a faulty variant: the step is left as soon as one of the tasks is done
Promise_all_firstDone(tasks) ==
  Len(tasks) = 0 \/ \E i \in 1..Len(tasks) : tasks[i].pc = "done"

\* Promise.all(tasks) is fulfilled: every task has run to its end
Promise_all(tasks) == \A i \in 1..Len(tasks) : tasks[i].pc = "done"

\* Promise.all has resolved: sort, render, collect, then normalizeSchema
\* starts writing the pre-normalize source file
assemble(b) ==
  /\ build[b].pc = "resolving"
  /\ Promise_all(build[b].tasks)
  /\ LET sorted == sortedRoutes(routes)
         schema == assembleSchema(heap, externalFiles, routes, sorted, build[b].options)
     IN IF IsThrow(schema)
        THEN build' = [build EXCEPT
               ![b] = Finally([@ EXCEPT !.sortedRoutes = sorted, !.rendered = TRUE],
                              "rejected", schema.throw)]
        ELSE build' = [build EXCEPT ![b].pc = "writeSource", ![b].rendered = TRUE,
                                    ![b].sortedRoutes = sorted, ![b].schema = schema]
  /\ UNCHANGED Rest7

sourceFilename(tempDir) == tempDir \o <<"/", "pre-normalize-", "r">>

\* fs.writeFile(sourceFilename, JSON.stringify(schema)) completes
writeSource(b) ==
  /\ build[b].pc = "writeSource"
  /\ \/ /\ build[b].tempDir \in fs.dirs
        /\ fs' = writeFile(fs, sourceFilename(build[b].tempDir), stringify(build[b].schema))
        /\ build' = [build EXCEPT ![b].pc = "normalize"]
     \/ /\ build' = [build EXCEPT ![b] = Finally(@, "rejected", <<"cannot write source">>)]
        /\ UNCHANGED fs
  /\ UNCHANGED <<heap, registeredFixedSchemas, externalFiles, last, routes, stdout>>

\* $RefParser[type](sourceFilename) completes; on success the text is
\* prettified and, for output.type file, fs.writeFile(target) is started
normalize(b) ==
  /\ build[b].pc = "normalize"
  /\ LET src == sourceFilename(build[b].tempDir)
         doc == Get(fs.files, src)
         scratch == { r \in Refs(doc) : InDir(<<"/tmp/oas-dsl">>, r) }
     IN \/ /\ FileExists(fs, src)
           /\ \A r \in scratch : FileExists(fs, RefFile(r))
           /\ build' = [build EXCEPT
                ![b].finalSchema = prettify(stringify(RefParser(doc))),
                ![b].pc = IF build[b].output.type = "file" THEN "writeTarget"
                          ELSE "transform"]
        \/ build' = [build EXCEPT ![b] = Finally(@, "rejected", <<"cannot normalize">>)]
  /\ UNCHANGED Rest7

\* fs.writeFile(params.target.filename, finalSchema) completes
writeTarget(b) ==
  /\ build[b].pc = "writeTarget"
  /\ \/ /\ fs' = writeFile(fs, build[b].output.filename, build[b].finalSchema)
        /\ build' = [build EXCEPT ![b].pc = "transform"]
     \/ /\ build' = [build EXCEPT ![b] = Finally(@, "rejected", <<"cannot write target">>)]
        /\ UNCHANGED fs
  /\ UNCHANGED <<heap, registeredFixedSchemas, externalFiles, last, routes, stdout>>

\* normalizeSchema has returned: the transformations, the print, the return
transform(b) ==
  /\ build[b].pc = "transform"
  /\ LET ts == build[b].transformations
         obj == IF ts = Undefined THEN JUndef
                ELSE applyTransformations(JSON_parse(build[b].finalSchema), Val(ts))
         final == IF ts = Undefined THEN build[b].finalSchema
                  ELSE prettify(stringify(obj))
     IN IF IsThrow(obj)
        THEN /\ build' = [build EXCEPT ![b] = Finally(@, "rejected", obj.throw)]
             /\ UNCHANGED stdout
        ELSE /\ stdout' = IF build[b].output.type = "stdout"
                          THEN Append(stdout, final) ELSE stdout
             \* the callback ends without a return statement: the promise of
             \* makeSchema is fulfilled with undefined
             /\ build' = [build EXCEPT
                  ![b] = Finally([@ EXCEPT !.finalSchema = final, !.value = JUndef],
                                 "fulfilled", <<>>)]
  /\ UNCHANGED <<heap, registeredFixedSchemas, externalFiles, last, routes, fs>>

\* fs.rm(dir, {recursive: true}) completes; .catch swallows its error
rm(b) ==
  /\ build[b].rm = "started"
  /\ \/ /\ fs' = [fs EXCEPT !.dirs = @ \ {build[b].tempDir},
                            !.files = SelectSeq(@, LAMBDA p : ~InDir(build[b].tempDir, p[1]))]
        /\ build' = [build EXCEPT ![b].rm = "done"]
     \/ /\ build' = [build EXCEPT ![b].rm = "failed"]
        /\ UNCHANGED fs
  /\ UNCHANGED <<heap, registeredFixedSchemas, externalFiles, last, routes, stdout>>

(***************************************************************************)
(* A build of a small program                                              *)
(***************************************************************************)
F1 == <<"a", "/", "x">>
F2 == <<"b", "/", "x">>
ExternalFileLists == { <<>>, <<F1>>, <<F1, F2>> }

\* const s = string(), r = s.required(), u = s.label("A B"),
\*       [v = r.label("A_B"),] [e1 = ref(F1),] [e2 = ref(F2),]
\*       p = object({id: r}), q = object({a: u, b: e1, c: e2})
Program(dup, files) ==
  LET a1 == NewLeaf(<<>>, "StringField")
      a2 == required(a1.heap, a1.id)
      a3 == label(a2.heap, <<>>, a1.id, <<"A", " ", "B">>)
      a4 == IF dup THEN label(a3.heap, a3.registered, a2.id, <<"A", "_", "B">>) ELSE a3
      e1 == IF Len(files) >= 1
            THEN ReferenceSchema_new(a4.heap, <<>>, files[1], Pointer)
            ELSE [id |-> 0, heap |-> a4.heap, externalFiles |-> <<>>]
      e2 == IF Len(files) >= 2
            THEN ReferenceSchema_new(e1.heap, e1.externalFiles, files[2], Pointer)
            ELSE [id |-> 0, heap |-> e1.heap, externalFiles |-> e1.externalFiles]
      p == ObjectField_new(e2.heap, << <<"id", a2.id>> >>)
      q == ObjectField_new(p.heap,
             << <<"a", a3.id>> >>
             \o (IF e1.id # 0 THEN << <<"b", e1.id>> >> ELSE <<>>)
             \o (IF e2.id # 0 THEN << <<"c", e2.id>> >> ELSE <<>>))
  IN [heap |-> q.heap, registered |-> a4.registered,
      externalFiles |-> e2.externalFiles,
      pathObj |-> p.id, bodyObj |-> q.id, fixed |-> a3.id]

NoResponse ==
  [statusCode |-> 200, description |-> <<"ok">>, schema |-> Undefined,
   headers |-> Undefined, examples |-> Undefined]
NoValidate ==
  [path |-> Undefined, query |-> Undefined, body |-> Undefined, headers |-> Undefined]
\* a DefinedRoute with every optional property left out
DefinedRoute(operationId, method, path) ==
  [operationId |-> operationId, description |-> <<"op">>, notes |-> Undefined,
   deprecated |-> Undefined, method |-> method, path |-> path, tags |-> Undefined,
   validate |-> Undefined, successResponse |-> NoResponse,
   errorResponses |-> Undefined, security |-> Undefined, order |-> Undefined]
ReferencedRoute(method, path, file) ==
  [method |-> method, path |-> path, order |-> Some(1),
   ref |-> [file |-> file, path |-> Pointer], deprecated |-> Undefined]

ProgramRoutes(w) ==
  LET get == [DefinedRoute(<<"getW">>, "GET", <<"/", "w", "/", "{id}">>) EXCEPT
                !.validate = Some([NoValidate EXCEPT !.path = Some(w.pathObj),
                                                     !.body = Some(w.bodyObj)]),
                !.successResponse = [NoResponse EXCEPT !.schema = Some(w.fixed)]]
      post == ReferencedRoute("POST", <<"/", "w">>, F2)
      \* a route written without a validate block
      list == [DefinedRoute(<<"listW">>, "GET", <<"/", "w">>) EXCEPT
                 !.successResponse = [NoResponse EXCEPT !.schema = Some(w.fixed)]]
  IN { <<>>, <<get>>, <<get, post>>, <<list>> }

Init ==
  /\ \E dup \in BOOLEAN : \E files \in ExternalFileLists :
       LET w == Program(dup, files)
       IN /\ heap = w.heap
          /\ registeredFixedSchemas = w.registered
          /\ externalFiles = w.externalFiles
          /\ routes \in ProgramRoutes(w)
  /\ last = [op |-> "none", receiver |-> 0, result |-> 0]
  /\ build = <<NoBuild>>
  /\ fs = EmptyFs
  /\ stdout = <<>>

Next ==
  \/ \E b \in Builds : makeSchema(b)
  \/ \E b \in Builds : mkdtemp(b)
  \/ \E b \in Builds : fn_start(b)
  \/ \E b \in Builds : \E i \in 1..Len(build[b].tasks) : task_dereference(b, i)
  \/ \E b \in Builds : \E i \in 1..Len(build[b].tasks) : task_writeFile(b, i)
  \/ \E b \in Builds : assemble(b)
  \/ \E b \in Builds : writeSource(b)
  \/ \E b \in Builds : normalize(b)
  \/ \E b \in Builds : writeTarget(b)
  \/ \E b \in Builds : transform(b)
  \/ \E b \in Builds : rm(b)

\* one makeSchema call on a program that has built its nodes and routes
Spec == Init /\ [][Next]_vars

(***************************************************************************)
(* A build over route arrays: the sort and the parameter lists             *)
(***************************************************************************)
MaxRoutes == 3

\* const s = string(), r = s.required(), n = number(),
\*       hs = object({"x-a": s, "x-b": r}), ps = object({id: s}),
\*       qs = object({q: n, p: r}), none = object({})
RouteProgram ==
  LET s == NewLeaf(<<>>, "StringField")
      r == required(s.heap, s.id)
      n == NewLeaf(r.heap, "NumberField")
      hs == ObjectField_new(n.heap, << <<"x-a", s.id>>, <<"x-b", r.id>> >>)
      ps == ObjectField_new(hs.heap, << <<"id", s.id>> >>)
      qs == ObjectField_new(ps.heap, << <<"q", n.id>>, <<"p", r.id>> >>)
      none == ObjectField_new(qs.heap, <<>>)
  IN [heap |-> none.heap, headers |-> hs.id, path |-> ps.id, query |-> qs.id,
      none |-> none.id]

Orders == { Undefined, Some(0), Some(1), Some(Sentinel), Some(Sentinel + 1) }

\* the routes a caller's array is drawn from
RouteChoices ==
  LET w == RouteProgram
      full == Some([NoValidate EXCEPT !.headers = Some(w.headers),
                                      !.path = Some(w.path),
                                      !.query = Some(w.query)])
      empty == Some([NoValidate EXCEPT !.path = Some(w.none)])
  IN { [DefinedRoute(<<"getA">>, "GET", <<"/", "a">>) EXCEPT
          !.validate = full, !.order = o] : o \in Orders }
     \cup { DefinedRoute(<<"getB">>, "GET", <<"/", "b">>),
            [DefinedRoute(<<"postA">>, "POST", <<"/", "a">>) EXCEPT
               !.validate = empty, !.order = Some(1)],
            ReferencedRoute("POST", <<"/", "b">>, F1) }

RouteArrays == UNION { [1..k -> RouteChoices] : k \in 0..MaxRoutes }

\* makeSchema({routes, output: {type: "none"}}, options) has just been called
InitRoutes ==
  /\ heap = RouteProgram.heap
  /\ registeredFixedSchemas = <<>>
  /\ externalFiles = <<>>
  /\ routes \in RouteArrays
  /\ \E options \in Modes : build = <<NewBuild(options, [type |-> "none"], Undefined)>>
  /\ last = [op |-> "none", receiver |-> 0, result |-> 0]
  /\ fs = EmptyFs
  /\ stdout = <<>>

NextRoutes ==
  \/ \E b \in Builds : mkdtemp(b)
  \/ \E b \in Builds : fn_start(b)
  \/ \E b \in Builds : \E i \in 1..Len(build[b].tasks) : task_dereference(b, i)
  \/ \E b \in Builds : \E i \in 1..Len(build[b].tasks) : task_writeFile(b, i)
  \/ \E b \in Builds : assemble(b)

SpecRoutes == InitRoutes /\ [][NextRoutes]_vars

(***************************************************************************)
(* Two builds of one program, and ref() calls made while they run          *)
(***************************************************************************)
\* makeSchema has been called twice on the same routes, the second call
\* without awaiting the first; the caller goes on constructing references
InitResolve ==
  /\ heap = <<>>
  /\ registeredFixedSchemas = <<>>
  /\ externalFiles = <<>>
  /\ routes \in { <<>>, <<ReferencedRoute("POST", <<"/", "w">>, F1)>> }
  /\ build = << NewBuild(Flat, [type |-> "none"], Undefined),
                NewBuild(Flat, [type |-> "none"], Undefined) >>
  /\ last = [op |-> "none", receiver |-> 0, result |-> 0]
  /\ fs = EmptyFs
  /\ stdout = <<>>

NextResolve ==
  \/ oas_ref
  \/ \E b \in Builds : mkdtemp(b)
  \/ \E b \in Builds : fn_start(b)
  \/ \E b \in Builds : \E i \in 1..Len(build[b].tasks) : task_dereference(b, i)
  \/ \E b \in Builds : \E i \in 1..Len(build[b].tasks) : task_writeFile(b, i)
  \/ \E b \in Builds : assemble(b)
  \/ \E b \in Builds : rm(b)

SpecResolve == InitResolve /\ [][NextResolve]_vars

(***************************************************************************)
(* routeToJsonSchema on routes that differ in their responses              *)
(***************************************************************************)
MaxErrors == 2

\* the responses a route is given: without a schema (bare, or with headers
\* and examples all the same), and with a schema, headers and examples
ResponseChoices ==
  LET w == RouteProgram
      StatusCodes == { 200, 201, 400, 404 }
      ex == Some(JObj(<< <<"one", JObj(<< <<"value", JNum(0)>> >>)>> >>))
  IN { [NoResponse EXCEPT !.statusCode = c, !.description = <<"bare">>]
         : c \in StatusCodes }
     \cup { [NoResponse EXCEPT !.statusCode = c, !.description = <<"no schema">>,
                               !.headers = Some(w.headers), !.examples = ex]
              : c \in StatusCodes }
     \cup { [NoResponse EXCEPT !.statusCode = c, !.description = <<"full">>,
                               !.schema = Some(w.path),
                               !.headers = Some(w.headers), !.examples = ex]
              : c \in StatusCodes }

\* a route with a success response and up to MaxErrors error responses
ResponseRoutes ==
  LET ErrorChoices == { r \in ResponseChoices : r.description # <<"bare">> }
  IN { [DefinedRoute(<<"getA">>, "GET", <<"/", "a">>) EXCEPT
          !.successResponse = ok, !.errorResponses = errs]
       : ok \in ResponseChoices,
         errs \in { Undefined } \cup
                  { Some(e) : e \in UNION { [1..k -> ErrorChoices] : k \in 0..MaxErrors } } }

\* a route has been written down and nothing has been called yet
InitResponses ==
  /\ heap = RouteProgram.heap
  /\ registeredFixedSchemas = <<>>
  /\ externalFiles = <<>>
  /\ \E route \in ResponseRoutes : routes = <<route>>
  /\ build = <<NoBuild>>
  /\ last = [op |-> "none", receiver |-> 0, result |-> 0]
  /\ fs = EmptyFs
  /\ stdout = <<>>

Call_routeToJsonSchema ==
  /\ last.op = "none"
  /\ \E options \in Modes :
       last' = [op |-> "routeToJsonSchema", receiver |-> 1, options |-> options,
                result |-> routeToJsonSchema(heap, externalFiles, routes[1], options)]
  /\ UNCHANGED <<heap, registeredFixedSchemas, externalFiles, routes, build, fs, stdout>>

NextResponses == Call_routeToJsonSchema

SpecResponses == InitResponses /\ [][NextResponses]_vars

(***************************************************************************)
(* Labels registered while builds of the same process run                  *)
(***************************************************************************)
\* makeSchema has been called twice, with no route or with a Referenced route
\* alone; the caller goes on making strings and labelling them, so that no
\* labelled node is reachable from the routes of either build
InitRegistry ==
  /\ heap = <<>>
  /\ registeredFixedSchemas = <<>>
  /\ externalFiles = <<>>
  /\ routes \in { <<>>, <<ReferencedRoute("POST", <<"/", "w">>, F1)>> }
  /\ \E first, second \in Modes :
       build = << NewBuild(first, [type |-> "none"], Undefined),
                  NewBuild(second, [type |-> "none"], Undefined) >>
  /\ last = [op |-> "none", receiver |-> 0, result |-> 0]
  /\ fs = EmptyFs
  /\ stdout = <<>>

NextRegistry ==
  \/ oas_string
  \/ ExtensibleSchema_label
  \/ Schema_required
  \/ \E b \in Builds : mkdtemp(b)
  \/ \E b \in Builds : fn_start(b)
  \/ \E b \in Builds : \E i \in 1..Len(build[b].tasks) : task_dereference(b, i)
  \/ \E b \in Builds : \E i \in 1..Len(build[b].tasks) : task_writeFile(b, i)
  \/ \E b \in Builds : assemble(b)
  \/ \E b \in Builds : writeSource(b)
  \/ \E b \in Builds : normalize(b)
  \/ \E b \in Builds : transform(b)

SpecRegistry == InitRegistry /\ [][NextRegistry]_vars

(***************************************************************************)
(* Two builds of a program whose route reaches two external references     *)
(***************************************************************************)
\* the program has built its nodes and its route, whose body is
\* object({a: u, b: ref(F1), c: ref(F2)}), and has called makeSchema once
InitBuilds ==
  /\ LET w == Program(FALSE, <<F1, F2>>)
     IN /\ heap = w.heap
        /\ registeredFixedSchemas = w.registered
        /\ externalFiles = w.externalFiles
        /\ routes \in { rs \in ProgramRoutes(w) :
                          Len(rs) = 1 /\ rs[1].validate # Undefined }
  /\ build = << NewBuild(Flat, [type |-> "none"], Undefined), NoBuild >>
  /\ last = [op |-> "none", receiver |-> 0, result |-> 0]
  /\ fs = EmptyFs
  /\ stdout = <<>>

\* the caller calls makeSchema once more: after the promises of its earlier
\* calls have settled (await makeSchema(...).catch(...); makeSchema(...)), or
\* without waiting for them
makeSchema_again(b, awaits) ==
  /\ build[b].pc = "idle"
  /\ awaits => \A c \in Builds \ {b} : build[c].pc = "settled"
  /\ build' = [build EXCEPT ![b] = NewBuild(Flat, [type |-> "none"], Undefined)]
  /\ UNCHANGED Rest7

NextSequential ==
  \/ \E b \in Builds : makeSchema_again(b, TRUE)
  \/ \E b \in Builds : mkdtemp(b)
  \/ \E b \in Builds : fn_start(b)
  \/ \E b \in Builds : \E i \in 1..Len(build[b].tasks) : task_dereference(b, i)
  \/ \E b \in Builds : \E i \in 1..Len(build[b].tasks) : task_writeFile(b, i)
  \/ \E b \in Builds : assemble(b)
  \/ \E b \in Builds : writeSource(b)
  \/ \E b \in Builds : normalize(b)
  \/ \E b \in Builds : transform(b)
  \/ \E b \in Builds : rm(b)

\* two builds run one after the other
SpecSequential == InitBuilds /\ [][NextSequential]_vars

NextConcurrent ==
  \/ \E b \in Builds : makeSchema_again(b, FALSE)
  \/ \E b \in Builds : mkdtemp(b)
  \/ \E b \in Builds : fn_start(b)
  \/ \E b \in Builds : \E i \in 1..Len(build[b].tasks) : task_dereference(b, i)
  \/ \E b \in Builds : \E i \in 1..Len(build[b].tasks) : task_writeFile(b, i)
  \/ \E b \in Builds : assemble(b)
  \/ \E b \in Builds : writeSource(b)
  \/ \E b \in Builds : normalize(b)
  \/ \E b \in Builds : transform(b)
  \/ \E b \in Builds : rm(b)

\* two builds of which the second may be started while the first runs
SpecConcurrent == InitBuilds /\ [][NextConcurrent]_vars

(***************************************************************************)
(* routeToJsonSchema on a Referenced route                                 *)
(***************************************************************************)
\* a Referenced route has been written down, in a program that has labelled
\* nodes; the entry of the route's file in externalFiles is missing, "" or the
\* path of a scratch copy
InitReferenced ==
  /\ heap = Program(FALSE, <<>>).heap
  /\ registeredFixedSchemas = Program(FALSE, <<>>).registered
  /\ \E method \in {"GET", "POST"} : \E file \in {F1, F2} :
     \E d \in {Undefined, Some(TRUE), Some(FALSE)} : \E o \in {Undefined, Some(1)} :
       /\ routes = << [ReferencedRoute(method, <<"/", "w">>, file) EXCEPT
                         !.deprecated = d, !.order = o] >>
       /\ externalFiles \in
            { <<>>, SetFile(<<>>, file, <<>>),
              SetFile(<<>>, file, targetFilename(<<"/tmp/oas-dsl", "1">>, 0, file)) }
  /\ build = <<NoBuild>>
  /\ last = [op |-> "none", receiver |-> 0, result |-> 0]
  /\ fs = EmptyFs
  /\ stdout = <<>>

SpecReferenced == InitReferenced /\ [][Call_routeToJsonSchema]_vars

(***************************************************************************)
(* label() calls with labels of any spelling                               *)
(***************************************************************************)
MaxLabelLen == 2
MaxLabels == 2

\* a letter, the safe punctuation "." and "_", and a space
LabelChars == { "A", ".", "_", " " }
LabelStrings == UNION { [1..k -> LabelChars] : k \in 0..MaxLabelLen }

\* const s = string()
InitLabels ==
  /\ heap = NewLeaf(<<>>, "StringField").heap
  /\ registeredFixedSchemas = <<>>
  /\ externalFiles = <<>>
  /\ last = [op |-> "string", receiver |-> 0, result |-> 1]
  /\ routes = <<>>
  /\ build = <<NoBuild>>
  /\ fs = EmptyFs
  /\ stdout = <<>>

\* s.label(d), up to MaxLabels times
Call_label ==
  /\ Len(registeredFixedSchemas) < MaxLabels
  /\ \E d \in LabelStrings :
       LET r == label(heap, registeredFixedSchemas, 1, d)
       IN /\ heap' = r.heap
          /\ registeredFixedSchemas' = r.registered
          /\ last' = [op |-> "label", receiver |-> 1, result |-> r.id, arg |-> d]
  /\ UNCHANGED <<externalFiles, routes, build, fs, stdout>>

SpecLabels == InitLabels /\ [][Call_label]_vars

(***************************************************************************)
(* Properties of the DSL calls                                             *)
(***************************************************************************)
ModifierOps ==
  { "required", "deprecated", "examples", "description", "example", "min",
    "max", "pattern", "iso", "default", "items", "additionalProperties" }

\* C1: a modifier call returns an object that is not the receiver (nor any
\* object that existed before), and every object that existed before the
\* call, the receiver included, keeps its attributes and its fragment in flat
\* and in referenced mode; as this holds of every call it holds of chains,
\* also when the receiver is a field of an Object or the item of an Array.
C1_ReceiverNeverMutated ==
  [][ last'.op \in ModifierOps =>
        /\ last'.result # last'.receiver
        /\ last'.result \notin 1..Len(heap)
        /\ \A n \in 1..Len(heap) :
             /\ heap'[n] = heap[n]
             /\ toJSonSchema(heap', externalFiles', n, Flat)
                  = toJSonSchema(heap, externalFiles, n, Flat)
             /\ toJSonSchema(heap', externalFiles', n, Referenced)
                  = toJSonSchema(heap, externalFiles, n, Referenced) ]_vars

\* required() was called on a node that is a field of an Object: the new
\* node is required, the Object's fragment lists no required field
C1_Witness ==
  /\ last.op = "required"
  /\ heap[last.result]._required = Some(TRUE)
  /\ \E o \in OfKind({"ObjectField"}) :
       /\ \E i \in 1..Len(heap[o]._fields) : heap[o]._fields[i][2] = last.receiver
       /\ ~HasKey(toJSonSchema(heap, externalFiles, o, Flat).obj, "required")

\* C6: asParameterList(location, options) on an Object yields one descriptor
\* per field, in field order, named after the field, with in = location;
\* required is true for every field when location is path, and is the
\* field's own flag (true or undefined) for query, header and cookie.
C6_ParameterList ==
  last.op = "asParameterList" =>
    LET fields == heap[last.receiver]._fields
        ps == last.result.arr
    IN /\ Len(ps) = Len(fields)
       /\ \A i \in 1..Len(fields) :
            /\ Get(ps[i].obj, "name") = JStr(<<fields[i][1]>>)
            /\ Get(ps[i].obj, "in") = JStr(<<last.parameterType>>)
            /\ Get(ps[i].obj, "required") =
                 IF last.parameterType = "path" THEN JBool(TRUE)
                 ELSE IF heap[fields[i][2]]._required = Some(TRUE)
                      THEN JBool(TRUE) ELSE JUndef

\* a path parameter list with a field that is not itself required, and a
\* query parameter list with a required and a not required field
C6_Witness ==
  /\ last.op = "asParameterList"
  /\ Len(last.result.arr) = 2
  /\ \/ /\ last.parameterType = "path"
        /\ \E i \in 1..2 : heap[heap[last.receiver]._fields[i][2]]._required = Undefined
     \/ /\ last.parameterType = "query"
        /\ Get(last.result.arr[1].obj, "required") = JBool(TRUE)
        /\ Get(last.result.arr[2].obj, "required") = JUndef

\* C8: a Fixed node serializes in flat mode to the fragment of its wrapped
\* node and in referenced mode to {$ref: "#/components/schemas/<L>"}, L its
\* stored (normalized: safe characters only) label; toComponent returns one
\* entry, keyed by the same L, whose value is the wrapped node's fragment.
C8_FixedFragment ==
  LET n == last.receiver
      wrapped == Val(heap[n]._schema)
      L == heap[n]._label
  IN /\ (last.op = "toJSonSchema" /\ heap[n].kind = "FixedSchema") =>
          /\ \A i \in 1..Len(L) : L[i] \in SafeChars
          /\ last.result =
               IF last.options = Flat
               THEN toJSonSchema(heap, externalFiles, wrapped, Flat)
               ELSE JObj(<< <<"$ref", JStr(<<"#/components/schemas/">> \o L)>> >>)
     /\ last.op = "toComponent" =>
          /\ Len(last.result.obj) = 1
          /\ last.result.obj[1][1] = L
          /\ last.result.obj[1][2] =
               toJSonSchema(heap, externalFiles, wrapped, last.options)
          /\ toJSonSchema(heap, externalFiles, n, Referenced) =
               JObj(<< <<"$ref", JStr(<<"#/components/schemas/">>
                                        \o last.result.obj[1][1])>> >>)

\* toComponent was called on a Fixed node whose label needed normalizing
C8_Witness ==
  /\ last.op = "toComponent"
  /\ last.options = Referenced
  /\ last.result.obj[1][1] = <<"A", "_", "B">>
  /\ registeredFixedSchemas = << <<"A", "_", "B">> >>
  /\ heap[Val(heap[last.receiver]._schema)]._required = Some(TRUE)

(***************************************************************************)
(* Properties of the assembly                                              *)
(***************************************************************************)
\* the builds whose callback has got past the sort and the rendering
Assembled == { b \in Builds : build[b].pc = "writeSource" }

\* the order a route is sorted by, as the specification words it
OrderOr10000(route) == IF route.order = Undefined THEN 10000 ELSE Val(route.order)

\* the positions of s whose path is not the path of an earlier position
FirstOfPath(s) ==
  SelectSeq(Tup([i \in 1..Len(s) |-> i]),
            LAMBDA i : \A j \in 1..(i - 1) : s[j].path # s[i].path)

\* C4: the sorted sequence the routes are rendered in is ascending in
\* `order` with undefined counted as 10000; the routes of one order are in it
\* the routes of that order in the input array, in the input's order; the
\* keys of `paths` are the URL templates in the order of their first route in
\* the sorted sequence; and no step reorders the caller's array.
C4_RoutesRenderedInOrder ==
  /\ [](\A b \in Assembled :
         LET sorted == build[b].sortedRoutes
             first == FirstOfPath(sorted)
         IN /\ Len(sorted) = Len(routes)
            /\ \A i, j \in 1..Len(sorted) :
                 i < j => OrderOr10000(sorted[i]) <= OrderOr10000(sorted[j])
            /\ \A r \in { routes[i] : i \in 1..Len(routes) } :
                 SelectSeq(sorted, LAMBDA x : OrderOr10000(x) = OrderOr10000(r))
                   = SelectSeq(routes, LAMBDA x : OrderOr10000(x) = OrderOr10000(r))
            /\ Keys(Get(build[b].schema.obj, "paths").obj)
                 = Tup([k \in 1..Len(first) |-> sorted[first[k]].path]))
  /\ [][routes' = routes]_vars

\* three routes on the two paths, given against the order they sort in: two
\* of them tie and keep their input order, and /b comes first in `paths`
C4_Witness ==
  \E b \in Assembled :
    /\ Len(routes) = 3
    /\ routes[1].order = Undefined /\ routes[1].path = <<"/", "a">>
    /\ routes[2].order = Some(1) /\ routes[2].path = <<"/", "b">>
    /\ routes[3].order = Some(1) /\ routes[3].path = <<"/", "a">>
    /\ build[b].sortedRoutes = <<routes[2], routes[3], routes[1]>>
    /\ Keys(Get(build[b].schema.obj, "paths").obj) = << <<"/", "b">>, <<"/", "a">> >>

\* C5 as it is stated: in the sorted sequence no route without `order` comes
\* before a route with an `order`, whatever that order is.
C5_UndefinedLast_AnyOrder ==
  \A b \in Assembled :
    LET sorted == build[b].sortedRoutes
    IN \A i, j \in 1..Len(sorted) :
         (sorted[i].order = Undefined /\ sorted[j].order # Undefined) => j < i

\* C5, amended: in the sorted sequence no route without `order` comes before
\* a route whose `order` is below 10000.
C5_UndefinedLast_Below10000 ==
  \A b \in Assembled :
    LET sorted == build[b].sortedRoutes
    IN \A i, j \in 1..Len(sorted) :
         (/\ sorted[i].order = Undefined
          /\ sorted[j].order # Undefined
          /\ Val(sorted[j].order) < 10000) => j < i

\* a route without order was given first and is rendered after two routes of
\* orders 1 and 0 given after it
C5_Witness ==
  \E b \in Assembled :
    /\ Len(routes) = 3
    /\ routes[1].order = Undefined
    /\ routes[2].order = Some(1)
    /\ routes[3].order = Some(0)
    /\ build[b].sortedRoutes = <<routes[3], routes[2], routes[1]>>

\* the fields of one of the three validation objects of a route
ValidateFields(route, part) ==
  IF route.validate = Undefined THEN <<>>
  ELSE LET obj == Val(route.validate)[part]
       IN IF obj = Undefined THEN <<>> ELSE heap[Val(obj)]._fields

\* the <<name, location>> pairs of a sequence of fields
NamedIn(fields, location) ==
  Tup([i \in 1..Len(fields) |-> <<fields[i][1], location>>])

\* C7: the operation rendered for a Defined route has no `parameters` key
\* when its three validation objects have no field, and has otherwise one
\* parameter per field: those of headers, then of path, then of query, each
\* group in field order.
C7_ParametersHeaderPathQuery ==
  \A b \in Assembled :
    LET sorted == build[b].sortedRoutes
        ps == Get(build[b].schema.obj, "paths").obj
    IN \A i \in 1..Len(sorted) :
         LET route == sorted[i]
             wins == \A j \in (i + 1)..Len(sorted) :
                       sorted[j].path # route.path \/ sorted[j].method # route.method
             op == Get(Get(ps, route.path).obj, toLowerCase(route.method)).obj
             expected == NamedIn(ValidateFields(route, "headers"), "header")
                         \o NamedIn(ValidateFields(route, "path"), "path")
                         \o NamedIn(ValidateFields(route, "query"), "query")
         IN (IsDefined(route) /\ wins) =>
              IF expected = <<>> THEN ~HasKey(op, "parameters")
              ELSE LET parameters == Get(op, "parameters").arr
                   IN /\ Len(parameters) = Len(expected)
                      /\ \A k \in 1..Len(expected) :
                           /\ Get(parameters[k].obj, "name") = JStr(<<expected[k][1]>>)
                           /\ Get(parameters[k].obj, "in") = JStr(<<expected[k][2]>>)

\* one route with two header fields, a path field and two query fields is
\* rendered with its five parameters, one with an empty path object without
C7_Witness ==
  \E b \in Assembled :
    LET ps == Get(build[b].schema.obj, "paths").obj
        get == Get(Get(ps, <<"/", "a">>).obj, "get").obj
        post == Get(Get(ps, <<"/", "a">>).obj, "post").obj
    IN /\ Len(routes) = 2
       /\ HasKey(ps, <<"/", "a">>)
       /\ HasKey(Get(ps, <<"/", "a">>).obj, "get")
       /\ HasKey(Get(ps, <<"/", "a">>).obj, "post")
       /\ Len(Get(get, "parameters").arr) = 5
       /\ Get(Get(get, "parameters").arr[3].obj, "in") = JStr(<<"path">>)
       /\ ~HasKey(post, "parameters")

(***************************************************************************)
(* Properties of the build                                                 *)
(***************************************************************************)
DuplicateError ==
  <<"Found duplicate fixed schemas: ">> \o Join(getDuplicateFixedSchemas(registeredFixedSchemas))

HasDuplicates == Len(getDuplicateFixedSchemas(registeredFixedSchemas)) > 0

\* the builds whose callback has got past its duplicate check, or has left by it
Checked == { b \in Builds : build[b].pc \notin {"idle", "mkdtemp", "fn"}
                             /\ build[b].tempDir # <<>> }

\* C2: a referenced build of a program that registered a label twice is
\* rejected with the error that lists the duplicated labels, and by then no
\* external file is resolved, no route rendered, no file written and nothing
\* printed; a flat build of the same program is never rejected with that error.
C2_DuplicateLabels ==
  \A b \in Checked :
    /\ (build[b].options = Referenced /\ HasDuplicates) =>
         /\ build[b].result = "rejected"
         /\ build[b].error = DuplicateError
         /\ \E i \in 2..Len(build[b].error) : build[b].error[i] = "A"
         /\ build[b].tasks = <<>>
         /\ \A i \in 1..Len(externalFiles) : externalFiles[i][2] = <<>>
         /\ ~build[b].rendered /\ build[b].sortedRoutes = <<>>
         /\ fs.writes = <<>>
         /\ stdout = <<>>
    /\ build[b].options = Flat => build[b].error # DuplicateError

\* a referenced build of the program with the two labels "A B" and "A_B" has
\* been rejected, its directory made and nothing written
C2_Witness ==
  \E b \in Checked :
    /\ build[b].options = Referenced
    /\ registeredFixedSchemas = << <<"A", "_", "B">>, <<"A", "_", "B">> >>
    /\ build[b].error = <<"Found duplicate fixed schemas: ", "A", "_", "B">>
    /\ build[b].tempDir \in fs.dirs
    /\ Len(externalFiles) = 2

ReferenceNodes == OfKind({"ReferenceSchema"})

\* the resolver has run for file: its task has recorded the scratch copy
Resolved(file) ==
  \E b \in Builds : \E i \in 1..Len(build[b].tasks) :
    build[b].tasks[i].file = file /\ build[b].tasks[i].pc = "done"

\* C3: an ExternalReference for file F and pointer P serializes, once the
\* resolver has run for F, to the pointer made of F's scratch copy, "#" and P;
\* serialized before that, it throws the error that names F.
C3_ExternalReference ==
  \A n \in ReferenceNodes : \A options \in Modes :
    LET F == heap[n]._file
        P == heap[n]._path
        entry == GetFile(externalFiles, F)
        frag == toJSonSchema(heap, externalFiles, n, options)
    IN IF Resolved(F)
       THEN /\ \E b \in Builds : InDir(build[b].tempDir, entry)
            /\ frag = JObj(<< <<"$ref", JStr(entry \o <<"#">> \o P)>> >>)
       ELSE /\ entry = <<>>
            /\ frag = Throw(<<"External file not found: ">> \o F)

\* the resolver has run for the first file and not yet for the second: the
\* first reference serializes to its pointer and the second throws
C3_Witness ==
  /\ Resolved(F1) /\ ~Resolved(F2)
  /\ \E n, m \in ReferenceNodes :
       /\ heap[n]._file = F1 /\ heap[m]._file = F2
       /\ toJSonSchema(heap, externalFiles, n, Flat)
            = JObj(<< <<"$ref",
                        JStr(<<"/tmp/oas-dsl", "1", "/", "spec-", "0", "-", "x", "#">>
                             \o Pointer)>> >>)
       /\ IsThrow(toJSonSchema(heap, externalFiles, m, Flat))

\* C9: a build takes no step before its scratch directory is made, the
\* directory is one that did not exist; a build that made its directory has
\* started the removal when it settles, whether fulfilled or rejected; and
\* once settled its outcome and its error stay, however the removal ends.
C9_ScratchDirectory ==
  /\ [](\A b \in Builds :
         /\ build[b].pc \in {"idle", "mkdtemp"} =>
              /\ build[b].tempDir = <<>> /\ build[b].tasks = <<>>
              /\ ~build[b].rendered /\ fs.writes = <<>> /\ stdout = <<>>
         /\ build[b].pc \in {"fn", "resolving", "writeSource", "normalize",
                             "writeTarget", "transform"} =>
              build[b].tempDir # <<>> /\ build[b].rm = "none"
         /\ (build[b].pc = "settled" /\ build[b].tempDir # <<>>) =>
              build[b].rm # "none")
  /\ [][\A b \in Builds :
         /\ build'[b].tempDir # build[b].tempDir =>
              build'[b].tempDir \notin fs.dirs /\ build'[b].tempDir \in fs'.dirs
         /\ build[b].pc = "settled" =>
              /\ build'[b].result = build[b].result
              /\ build'[b].error = build[b].error]_vars

\* a build was rejected by a task after its directory was made, the removal
\* has failed, the directory is still there and the error is the task's
C9_Witness ==
  \E b \in Builds :
    /\ build[b].result = "rejected"
    /\ build[b].error = <<"cannot dereference ">> \o F1
    /\ build[b].rm = "failed"
    /\ build[b].tempDir \in fs.dirs

\* C10 as it is stated: after a build with transformations has fulfilled,
\* what the output file holds, and what was printed, is the text of the
\* document after the transformations.
C10_SinkGetsTransformedDocument ==
  \A b \in Builds :
    (build[b].result = "fulfilled" /\ build[b].transformations # Undefined) =>
      /\ build[b].output.type = "file" =>
           Get(fs.files, build[b].output.filename) = build[b].finalSchema
      /\ build[b].output.type = "stdout" => stdout = <<build[b].finalSchema>>

(***************************************************************************)
(* Properties of the sinks and of the result of makeSchema                 *)
(***************************************************************************)
ScratchRoot == <<"/tmp/oas-dsl">>
\* the paths written outside the scratch directories, in the order written
userWrites == SelectSeq(fs.writes, LAMBDA p : ~InDir(ScratchRoot, p))
Fulfilled(b) == build[b].pc = "settled" /\ build[b].result = "fulfilled"
Rejected(b) == build[b].pc = "settled" /\ build[b].result = "rejected"

\* C11: a fulfilled build has performed the sink action of output.type and
\* no other (file: the named file written once, nothing printed; stdout:
\* printed once, no user file written; none: neither), and the value the
\* promise is fulfilled with is the final JSON text
C11_SinkAndResultValue ==
  \A b \in Builds : Fulfilled(b) =>
    LET out == build[b].output
    IN /\ userWrites = IF out.type = "file" THEN <<out.filename>> ELSE <<>>
       /\ Len(stdout) = IF out.type = "stdout" THEN 1 ELSE 0
       /\ build[b].value = build[b].finalSchema

\* C12: when makeSchema has rejected, whatever the reason, no document was
\* produced: the named output file has not been written and nothing has
\* been printed
C12_RejectedMeansNoDocument ==
  \A b \in Builds : Rejected(b) => (userWrites = <<>> /\ stdout = <<>>)

(***************************************************************************)
(* Properties of the Object fragment                                       *)
(***************************************************************************)
\* the names of the immediate fields of Object n whose required flag is set
ImmediateRequired(n) ==
  Keys(SelectSeq(heap[n]._fields, LAMBDA f : heap[f[2]]._required = Some(TRUE)))
\* object({id: string().required(), age: number().min(0)}) in flat mode
RoundTripFragment ==
  JObj(<< <<"type", JStr(<<"object">>)>>,
          <<"properties",
            JObj(<< <<"id", JObj(<< <<"type", JStr(<<"string">>)>> >>)>>,
                    <<"age", JObj(<< <<"type", JStr(<<"number">>)>>,
                                     <<"minimum", JNum(0)>> >>)>> >>)>>,
          <<"required", JArr(<< JStr(<<"id">>) >>)>> >>)

\* C13: an Object node serializes to type "object"; `properties` maps each
\* field name, in field order, to the fragment of that field and is left out
\* when there are no fields; `required` lists, in field order, exactly the
\* immediate fields whose required flag is set and is left out when there
\* are none (a required grandchild is not listed); a minimum of 0 is kept;
\* no additionalProperties key appears when the flag was never set
C13_ObjectFragment ==
  (last.op = "toJSonSchema" /\ heap[last.receiver].kind = "ObjectField") =>
    LET n == last.receiver
        fields == heap[n]._fields
        frag == last.result.obj
        props == Get(frag, "properties")
        req == ImmediateRequired(n)
    IN /\ ~IsThrow(last.result)
       /\ Get(frag, "type") = JStr(<<"object">>)
       /\ HasKey(frag, "properties") <=> Len(fields) > 0
       /\ Len(fields) > 0 =>
            /\ Keys(props.obj) = Keys(fields)
            /\ \A i \in 1..Len(fields) :
                 LET f == fields[i][2]
                 IN /\ props.obj[i][2] = toJSonSchema(heap, externalFiles, f, last.options)
                    /\ (heap[f].kind = "NumberField" /\ heap[f]._min = Some(0)) =>
                         Get(props.obj[i][2].obj, "minimum") = JNum(0)
       /\ HasKey(frag, "required") <=> req # <<>>
       /\ req # <<>> =>
            Get(frag, "required") = JArr(Tup([i \in 1..Len(req) |-> JStr(<<req[i]>>)]))
       /\ heap[n]._additionalProperties = Undefined =>
            \A i \in 1..Len(frag) :
              frag[i][1] \notin {"additionalProperties", "additionaProperties"}
       /\ (fields = << <<"id", 2>>, <<"age", 4>> >> /\ last.options = Flat) =>
            last.result = RoundTripFragment

\* the outer Object is serialized: its field r is required, and so is a field
\* of the Object that is its field q
C13_Witness ==
  /\ last.op = "toJSonSchema"
  /\ last.receiver = Len(heap)
  /\ heap[last.receiver]._fields[2][2] = 2
  /\ ImmediateRequired(heap[last.receiver]._fields[1][2]) # <<>>
  /\ Get(last.result.obj, "required") = JArr(<< JStr(<<"r">>) >>)

(***************************************************************************)
(* Properties of the responses of a route                                  *)
(***************************************************************************)
\* the responses of the route in the order the code inserts them
Responses(route) ==
  <<route.successResponse>> \o
  (IF route.errorResponses = Undefined THEN <<>> ELSE Val(route.errorResponses))
RenderedResponses == Get(last.result.obj, "responses").obj
\* a response without a schema is emitted as {description} only
BareWithoutSchema(rs) ==
  \A i \in 1..Len(rs) :
    rs[i].schema = Undefined =>
      Get(RenderedResponses, ToString(rs[i].statusCode)) =
        JObj(<< <<"description", JStr(rs[i].description)>> >>)

\* C14, as claimed: `responses` has one entry per response, keyed by its
\* status code, enumerated success first and then the error responses in
\* array order, whatever the status codes; a response without a schema is
\* {description} only
C14_ResponsesInInsertionOrder ==
  last.op = "routeToJsonSchema" =>
    LET rs == Responses(routes[1])
    IN /\ Keys(RenderedResponses) = Tup([i \in 1..Len(rs) |-> ToString(rs[i].statusCode)])
       /\ BareWithoutSchema(rs)

\* C14, amended: `responses` has one entry per distinct status code, holding
\* the last response given with that code (success, then errors in array
\* order), and enumerates in ascending order of status code; a response
\* without a schema that is not overwritten is {description} only
C14_ResponsesByStatusCode ==
  last.op = "routeToJsonSchema" =>
    LET rs == Responses(routes[1])
        codes == { rs[i].statusCode : i \in 1..Len(rs) }
        R == RenderedResponses
        lastWith(c) == rs[CHOOSE i \in 1..Len(rs) :
                            /\ rs[i].statusCode = c
                            /\ \A j \in (i + 1)..Len(rs) : rs[j].statusCode # c]
    IN /\ Len(R) = Cardinality(codes)
       /\ \A c \in codes :
            /\ HasKey(R, ToString(c))
            /\ Get(R, ToString(c)) =
                 toResponseSchema(heap, externalFiles, lastWith(c), last.options)
            /\ lastWith(c).schema = Undefined =>
                 Get(R, ToString(c)) =
                   JObj(<< <<"description", JStr(lastWith(c).description)>> >>)
       /\ \A i, j \in 1..Len(R) :
            i < j => \E c, d \in codes : /\ c < d
                                          /\ R[i][1] = ToString(c) /\ R[j][1] = ToString(d)

\* a route with success 201 and errors [404, 200], the last one without
\* a schema but with headers and examples
C14_Witness ==
  /\ last.op = "routeToJsonSchema"
  /\ routes[1].successResponse.statusCode = 201
  /\ routes[1].errorResponses # Undefined
  /\ Len(Val(routes[1].errorResponses)) = 2
  /\ Val(routes[1].errorResponses)[1].statusCode = 404
  /\ Val(routes[1].errorResponses)[2].statusCode = 200
  /\ Val(routes[1].errorResponses)[2].description = <<"no schema">>
  /\ Keys(RenderedResponses) = <<"200", "201", "404">>

(***************************************************************************)
(* Properties of the resolution step                                       *)
(***************************************************************************)
NotFound(error) == Len(error) > 0 /\ error[1] = "External file not found: "

\* C15: when a build renders its routes, the resolution step has completed
\* for every key of the resolution map; hence in a build that runs alone
\* and whose resolution step succeeded no ExternalReference throws
\* 'External file not found' while the document is assembled
C15_ResolvedBeforeRendering ==
  \A b \in Builds : build[b].rendered =>
    /\ \A i \in 1..Len(build[b].tasks) : build[b].tasks[i].pc = "done"
    /\ \A k \in 1..Len(externalFiles) :
         /\ \E i \in 1..Len(build[b].tasks) :
              build[b].tasks[i].file = externalFiles[k][1]
         /\ externalFiles[k][2] # <<>>
    /\ ~NotFound(build[b].error)
    /\ \A n \in ReferenceNodes :
         ~IsThrow(toJSonSchema(heap, externalFiles, n, build[b].options))

\* a route whose body reaches the references to two files has been rendered
C15_Witness ==
  \E b \in Builds :
    /\ build[b].rendered
    /\ build[b].pc = "writeSource"
    /\ Len(build[b].tasks) = 2
    /\ Len(routes) > 0
    /\ Cardinality(ReferenceNodes) = 2
    /\ Cardinality(Refs(build[b].schema)) >= 2

(***************************************************************************)
(* Properties of components.schemas                                        *)
(***************************************************************************)
\* the Fixed nodes reachable from node n through Object fields, Array items
\* and the wrapped schema of Fixed nodes
RECURSIVE FixedBelow(_)
FixedBelow(n) ==
  CASE heap[n].kind = "FixedSchema" -> {n} \cup FixedBelow(Val(heap[n]._schema))
    [] heap[n].kind = "ObjectField" ->
         UNION { FixedBelow(heap[n]._fields[i][2]) : i \in 1..Len(heap[n]._fields) }
    [] heap[n].kind = "ArrayField" ->
         UNION { FixedBelow(m) : m \in heap[n]._items }
    [] OTHER -> {}
\* the validation schemas and the response schemas of a Defined route
RouteSchemas(route) ==
  (IF route.validate = Undefined THEN {}
   ELSE LET v == Val(route.validate) IN v.path \cup v.query \cup v.headers \cup v.body)
  \cup UNION { r.schema : r \in { Responses(route)[i] : i \in 1..Len(Responses(route)) } }
ComponentSchemas(b) ==
  Get(Get(build[b].schema.obj, "components").obj, "schemas").obj

\* C16: in referenced mode components.schemas has a key for the label of
\* every Fixed node reachable from the validation schemas and the response
\* schemas of every Defined route, with or without a validate block
C16_FixedNodesCollected ==
  \A b \in Builds :
    (build[b].schema # JUndef /\ build[b].options.type = "referenced") =>
      \A i \in 1..Len(routes) :
        IsDefined(routes[i]) =>
          \A s \in RouteSchemas(routes[i]) : \A n \in FixedBelow(s) :
            HasKey(ComponentSchemas(b), heap[n]._label)

(***************************************************************************)
(* Properties of the join of the resolution step                           *)
(***************************************************************************)
Outstanding(task) == task.pc \in {"dereference", "writeFile"}
InResolution(b) == build[b].pc \in {"idle", "mkdtemp", "fn", "resolving"}

\* C17: a build is not past its resolution step, neither rendering nor
\* failed and removing its scratch directory, while a task of the step is
\* outstanding; and once the build has settled no task writes the
\* resolution map or a scratch file any more
C17_StepJoinsEveryTask ==
  /\ [](\A b \in Builds : ~InResolution(b) =>
          \A i \in 1..Len(build[b].tasks) : ~Outstanding(build[b].tasks[i]))
  /\ [][(\A b \in Builds : build[b].pc = "settled") =>
          (externalFiles' = externalFiles /\ fs'.writes = fs.writes)]_vars

(***************************************************************************)
(* Properties of a failed dereference                                      *)
(***************************************************************************)
Tasks(b) == 1..Len(build[b].tasks)
Failed(b, i) == build[b].tasks[i].pc = "failed"

\* C18: when the dereference of an external file fails while the build
\* awaits the step, makeSchema rejects with the error of that failure as it
\* is; a dereference is attempted once; a build with a failed dereference
\* has rendered no route and has written and printed no document
C18_FailedDereferenceAborts ==
  /\ [](\A b \in Builds : \A i \in Tasks(b) :
          /\ build[b].tasks[i].attempts = 1
          /\ Failed(b, i) =>
               /\ Rejected(b)
               /\ \E j \in Tasks(b) : Failed(b, j) /\ build[b].error = build[b].tasks[j].error
               /\ ~build[b].rendered
               /\ userWrites = <<>> /\ stdout = <<>>)
  /\ [][\A b \in Builds : \A i \in Tasks(b) :
          (build[b].pc = "resolving" /\ ~Failed(b, i) /\ build'[b].tasks[i].pc = "failed") =>
            /\ build'[b].pc = "settled" /\ build'[b].result = "rejected"
            /\ build'[b].error = build'[b].tasks[i].error
            /\ build'[b].error # <<>>]_vars
  /\ [][\A b \in Builds : Rejected(b) => build'[b].error = build[b].error]_vars

\* the dereference of the second file failed first and that of the first
\* file after it: the build has rejected with the error of the second file
C18_Witness ==
  \E b \in Builds :
    /\ Rejected(b)
    /\ Len(build[b].tasks) = 2
    /\ Failed(b, 1) /\ Failed(b, 2)
    /\ build[b].error = <<"cannot dereference ">> \o F2

(***************************************************************************)
(* Properties of the per-file tasks                                        *)
(***************************************************************************)
\* task i of build b completes its write in this step
Writes(b, i) ==
  build[b].tasks[i].pc = "writeFile" /\ build'[b].tasks[i].pc = "done"
Paths(f) == { f.files[k][1] : k \in 1..Len(f.files) }

\* C19: within one resolution step distinct external files, also those with
\* the same base name, have distinct target paths inside the scratch
\* directory; the task of a file writes that file's target path and that
\* file's key of the resolution map and nothing else, in every interleaving
C19_TasksWriteTheirOwn ==
  /\ [](\A b \in Builds : \A i, j \in Tasks(b) :
          /\ InDir(build[b].tempDir, build[b].tasks[i].target)
          /\ i # j => /\ build[b].tasks[i].file # build[b].tasks[j].file
                      /\ build[b].tasks[i].target # build[b].tasks[j].target)
  /\ [][\A b \in Builds : \A i \in Tasks(b) :
          Writes(b, i) =>
            LET t == build[b].tasks[i]
            IN /\ Keys(externalFiles') = Keys(externalFiles)
               /\ \A k \in 1..Len(externalFiles) :
                    externalFiles'[k][2] =
                      IF externalFiles[k][1] = t.file THEN t.target
                      ELSE externalFiles[k][2]
               /\ fs'.writes = Append(fs.writes, t.target)
               /\ Paths(fs') = Paths(fs) \cup {t.target}
               /\ \A path \in Paths(fs) \ {t.target} :
                    Get(fs'.files, path) = Get(fs.files, path)
               /\ \A j \in Tasks(b) \ {i} : build'[b].tasks[j] = build[b].tasks[j]]_vars
  /\ [][\A b \in Builds :
          (\E i \in Tasks(b) : build'[b].tasks[i] # build[b].tasks[i])
          /\ ~(\E i \in Tasks(b) : Writes(b, i))
          => (externalFiles' = externalFiles /\ fs' = fs)]_vars

\* the files a/x and b/x have both been resolved, the second one first
C19_Witness ==
  \E b \in Builds :
    /\ Len(build[b].tasks) = 2
    /\ build[b].tasks[1].file = F1 /\ build[b].tasks[2].file = F2
    /\ getFilename(F1) = getFilename(F2)
    /\ fs.writes = << build[b].tasks[2].target, build[b].tasks[1].target >>
    /\ GetFile(externalFiles, F1) = build[b].tempDir \o <<"/", "spec-", "0", "-", "x">>
    /\ GetFile(externalFiles, F2) = build[b].tempDir \o <<"/", "spec-", "1", "-", "x">>

(***************************************************************************)
(* Properties of the resolution map                                        *)
(***************************************************************************)
\* C20: the resolution map is write-once per key: an entry that holds a
\* resolved path is not cleared and not replaced by another value, whether
\* by the construction of another ExternalReference for the file, by a
\* Referenced route that targets it or by a later resolution step
C20_WriteOncePerKey ==
  [][\A k \in 1..Len(externalFiles) :
       externalFiles[k][2] # <<>> =>
         GetFile(externalFiles', externalFiles[k][1]) = externalFiles[k][2]]_vars

(***************************************************************************)
(* Properties of the registries                                            *)
(***************************************************************************)
\* C21: the registry of labels only grows: every step of the caller (label,
\* required) and of a build, successful or failed, leaves the labels registered
\* so far in place; hence a duplicate stays one, and every referenced build
\* that reaches its label check after a label was registered twice is rejected
\* with the duplicate-label error, even with no route at all and with no
\* labelled node reachable from its routes.
C21_RegistryOnlyGrows ==
  [][ /\ Len(registeredFixedSchemas') >= Len(registeredFixedSchemas)
      /\ SubSeq(registeredFixedSchemas', 1, Len(registeredFixedSchemas))
           = registeredFixedSchemas
      /\ HasDuplicates => HasDuplicates'
      /\ \A b \in Builds :
           (/\ HasDuplicates
            /\ build[b].options = Referenced
            /\ build[b].pc = "fn" /\ build'[b].pc # "fn")
           => /\ build'[b].pc = "settled"
              /\ build'[b].result = "rejected"
              /\ build'[b].error = DuplicateError ]_vars

\* one build was fulfilled, "A B" and "A_B" were registered, and the
\* other build, referenced and given no route, was rejected
C21_Witness ==
  /\ routes = <<>>
  /\ registeredFixedSchemas = << <<"A", "_", "B">>, <<"A", "_", "B">> >>
  /\ last.op = "label"
  /\ build[1].result = "fulfilled"
  /\ build[2].options = Referenced
  /\ build[2].error = <<"Found duplicate fixed schemas: ", "A", "_", "B">>

\* the keys of a fragment whose value is undefined or null
EmptyKeys(frag) ==
  IF IsThrow(frag) THEN {}
  ELSE { frag.obj[i][1] : i \in { j \in 1..Len(frag.obj) : frag.obj[j][2] \in {JUndef, JNull} } }

\* C22: the fragment of a leaf, Object or Array node has no key whose value is
\* undefined or null, whatever the modifiers were given (example(null)
\* included), and a falsy value that was set, such as example(0), is kept.
C22_NoUndefinedOrNullKeys ==
  \A n \in OfKind(Extensible) : \A options \in Modes :
    LET frag == toJSonSchema(heap, externalFiles, n, options)
    IN /\ EmptyKeys(frag) = {}
       /\ (~IsThrow(frag) /\ heap[n]._example = Some(JNum(0)))
            => Get(frag.obj, "example") = JNum(0)

\* C23: in a parameter list, in both modes, the schema of a field has no
\* example and no examples key, and the schema of a field that is a Fixed node
\* is the fragment of the node it wraps (less description, example and
\* required), not a pointer into the components.
C23_ParameterSchema ==
  last.op = "asParameterList" =>
    LET fields == heap[last.receiver]._fields
        ps == last.result.arr
    IN \A i \in 1..Len(fields) :
         LET field == heap[fields[i][2]]
             schema == Get(ps[i].obj, "schema").obj
         IN /\ ~HasKey(schema, "example") /\ ~HasKey(schema, "examples")
            /\ field.kind = "FixedSchema" =>
                 /\ ~HasKey(schema, "$ref")
                 /\ HasKey(schema, "type")
                 /\ schema = Rest(toJSonSchema(heap, externalFiles, Val(field._schema),
                                               last.options).obj,
                                  {"description", "example", "required"})

\* a referenced-mode parameter list over the Fixed node that wraps
\* string().example(0): the schema of that parameter is {type: "string"}
C23_Witness ==
  /\ last.op = "asParameterList"
  /\ last.options = Referenced
  /\ \E i \in 1..Len(last.result.arr) :
       LET field == heap[heap[last.receiver]._fields[i][2]]
       IN /\ field.kind = "FixedSchema"
          /\ heap[Val(field._schema)]._example = Some(JNum(0))
          /\ Get(last.result.arr[i].obj, "schema") = JObj(<< <<"type", JStr(<<"string">>)>> >>)

\* s and t differ only in characters that normalization replaces, or in "_"
\* standing where the other has such a character
SameButReplaced(s, t) ==
  /\ Len(s) = Len(t)
  /\ \A i \in 1..Len(s) : s[i] = t[i] \/ {s[i], t[i]} \cap SafeChars \subseteq {"_"}

\* C24: after label(d) the stored label has the length of d, keeps each
\* character of the class A-Z a-z 0-9 - . _ and has "_" in the place of each
\* other one; normalizing it again changes nothing; it is the key of the
\* node's component; every label that differs from d only in replaced
\* characters normalizes to the same key, and when an earlier node carries
\* that key the duplicate check names it.
C24_LabelNormalization ==
  last.op = "label" =>
    LET d == last.arg
        L == heap[last.result]._label
        earlier == { m \in OfKind({"FixedSchema"}) : m # last.result }
    IN /\ Len(L) = Len(d)
       /\ \A i \in 1..Len(d) :
            /\ d[i] \in SafeChars => L[i] = d[i]
            /\ d[i] \notin SafeChars => L[i] = "_"
       /\ toSchemaName(L) = L
       /\ registeredFixedSchemas[Len(registeredFixedSchemas)] = L
       /\ toComponent(heap, externalFiles, last.result, Flat).obj[1][1] = L
       /\ \A s \in LabelStrings :
            SameButReplaced(s, d) =>
              /\ toSchemaName(s) = L
              /\ \A m \in earlier :
                   heap[m]._label = toSchemaName(s) =>
                     \E i \in 1..Len(getDuplicateFixedSchemas(registeredFixedSchemas)) :
                       getDuplicateFixedSchemas(registeredFixedSchemas)[i] = L

\* label("A ") after label("A_"): both nodes carry the key "A_", which the
\* duplicate check names
C24_Witness ==
  /\ last.op = "label"
  /\ last.arg = <<"A", " ">>
  /\ registeredFixedSchemas = << <<"A", "_">>, <<"A", "_">> >>
  /\ getDuplicateFixedSchemas(registeredFixedSchemas) = << <<"A", "_">> >>
  /\ heap[2]._label = heap[3]._label

(***************************************************************************)
(* Properties of a Referenced route                                        *)
(***************************************************************************)
\* C25: a Referenced route renders as {$ref: file # path}, file and path
\* those of the route itself, with `deprecated` when and only when the route
\* sets it, and with no other key (no operationId, parameters, responses, tags,
\* x-order); the route contributes no entry to components.schemas.
C25_ReferencedRouteFragment ==
  last.op = "routeToJsonSchema" =>
    LET route == routes[1]
        frag == last.result
        document == assembleSchema(heap, externalFiles, routes, sortedRoutes(routes),
                                   Referenced)
    IN /\ ~IsThrow(frag)
       /\ Keys(frag.obj) =
            <<"$ref">> \o (IF route.deprecated = Undefined THEN <<>> ELSE <<"deprecated">>)
       /\ Get(frag.obj, "$ref") = JStr(route.ref.file \o <<"#">> \o route.ref.path)
       /\ route.deprecated # Undefined =>
            Get(frag.obj, "deprecated") = JBool(Val(route.deprecated))
       /\ collectRefSchemasForRoute(heap, route) = <<>>
       /\ Get(Get(document.obj, "components").obj, "schemas") = JObj(<<>>)

\* a route with an order and deprecated: false was rendered: the fragment
\* has the pointer and deprecated: false, and no x-order
C25_Witness ==
  /\ last.op = "routeToJsonSchema"
  /\ routes[1].order = Some(1)
  /\ last.result = JObj(<< <<"$ref", JStr(F1 \o <<"#">> \o Pointer)>>,
                           <<"deprecated", JBool(FALSE)>> >>)

\* C26: rendering a Referenced route reads the entry of the route's file in
\* the resolution map: with the entry missing or unresolved the rendering
\* throws, as serializing an ExternalReference does, and with the entry
\* resolved the pointer is made of the resolved path.
C26_ReferencedRouteLooksUp ==
  last.op = "routeToJsonSchema" =>
    LET route == routes[1]
        entry == GetFile(externalFiles, route.ref.file)
    IN IF entry = <<>>
       THEN last.result = Throw(<<"External file not found: ">> \o route.ref.file)
       ELSE last.result.obj[1] = <<"$ref", JStr(entry \o <<"#">> \o route.ref.path)>>

(***************************************************************************)
(* Properties of the pointers of the document                              *)
(***************************************************************************)
\* the labels L of the pointers #/components/schemas/L that occur in v
LabelsPointedTo(v) == { SubSeq(r, 2, Len(r)) : r \in { x \in Refs(v) : IsInternalRef(x) } }

\* C27: in the document a referenced build has assembled, every pointer
\* #/components/schemas/L under `paths` has a key L in components.schemas.
C27_ReferentialIntegrity ==
  \A b \in Builds :
    (build[b].schema # JUndef /\ build[b].options.type = "referenced") =>
      \A L \in LabelsPointedTo(Get(build[b].schema.obj, "paths")) :
        HasKey(ComponentSchemas(b), L)

(***************************************************************************)
(* Properties of the calls that touch the registries                       *)
(***************************************************************************)
\* C28: a label() call appends one label, that of the node it returns, to the
\* registry of labels and leaves the resolution map alone; a ref() call sets
\* the entry of its file in the resolution map, leaves every other entry and
\* the registry of labels alone; every other call, required, deprecated and
\* examples on a Fixed or ExternalReference node included, leaves both as they
\* are, so that variants of a labelled node, and objects that use it, add no
\* duplicate.
C28_OnlyConstructionRegisters ==
  [][ LET made == heap'[last'.result]
      IN CASE last'.op = "label" ->
                /\ registeredFixedSchemas' = Append(registeredFixedSchemas, made._label)
                /\ externalFiles' = externalFiles
           [] last'.op = "ref" ->
                /\ registeredFixedSchemas' = registeredFixedSchemas
                /\ HasKey(externalFiles', made._file)
                /\ \A i \in 1..Len(externalFiles') :
                     externalFiles'[i][1] # made._file =>
                       /\ HasKey(externalFiles, externalFiles'[i][1])
                       /\ externalFiles'[i][2] = GetFile(externalFiles, externalFiles'[i][1])
                /\ \A i \in 1..Len(externalFiles) : HasKey(externalFiles', externalFiles[i][1])
           [] OTHER ->
                /\ registeredFixedSchemas' = registeredFixedSchemas
                /\ externalFiles' = externalFiles
                /\ getDuplicateFixedSchemas(registeredFixedSchemas')
                     = getDuplicateFixedSchemas(registeredFixedSchemas) ]_vars

\* a labelled node and a variant derived from it by required(), deprecated()
\* or examples(): two nodes carry the label, which is registered once
C28_Witness ==
  /\ last.op \in {"required", "deprecated", "examples"}
  /\ heap[last.receiver].kind = "FixedSchema"
  /\ heap[last.result]._label = heap[last.receiver]._label
  /\ registeredFixedSchemas = << <<"A", "_", "B">> >>
  /\ getDuplicateFixedSchemas(registeredFixedSchemas) = <<>>

(***************************************************************************)
(* Properties of builds that follow or overlap one another                 *)
(***************************************************************************)
\* the files that the ExternalReference pointers of build b's document name
ReferencedCopies(b) ==
  IF build[b].schema = JUndef THEN {}
  ELSE { RefFile(r) : r \in { x \in Refs(build[b].schema) : ~IsInternalRef(x) } }

\* C29: when the builds of a process run one after another, every pointer
\* that an ExternalReference contributes to the document a build has
\* assembled names a file inside that build's own scratch directory.
C29_PointersIntoOwnDirectory ==
  \A b \in Builds : \A f \in ReferencedCopies(b) : InDir(build[b].tempDir, f)

\* C30: when two builds that share their external files overlap, no build is
\* rejected with 'External file not found', every pointer of a build's
\* document names a file inside that build's own scratch directory, and when
\* the final normalization is about to read the document that directory and
\* the files the pointers name are still there.
C30_ConcurrentBuildsIsolated ==
  \A b \in Builds :
    /\ ~NotFound(build[b].error)
    /\ \A f \in ReferencedCopies(b) : InDir(build[b].tempDir, f)
    /\ build[b].pc = "normalize" =>
         /\ build[b].tempDir \in fs.dirs
         /\ \A f \in ReferencedCopies(b) : FileExists(fs, f)

====
